------------------------------ MODULE FileData ------------------------------
(***************************************************************************)
(* The contents of files: filewrite and fileread of kernel/file.c over     *)
(* writei, readi, bmap, itrunc, balloc, bzero and bfree of kernel/fs.c.    *)
(* Processes share inodes and open files; a write of many bytes is several *)
(* transactions, each under the inode's lock.  Under that lock, each       *)
(* section under the lock of another buffer is a step: the bitmap block    *)
(* that balloc marks and bfree clears, the block that bzero zeroes, the    *)
(* block that writei fills.  A block is BSIZE cells; a byte and a block    *)
(* number (sizeof(uint) bytes in the code) take one cell each.             *)
(***************************************************************************)
EXTENDS Naturals, Sequences, FiniteSets, FiniteSetsExt

CONSTANTS
  FdProc,
  Ino,                \* inodes
  OpenFile,           \* struct file's
  ip,                 \* ip[f]: the inode of open file f
  NDIRECT,
  BSIZE,              \* cells of a block
  NBLOCKS,            \* data blocks of the disk
  BPB,                \* blocks to a bitmap block
  MAXOPBLOCKS,
  Value,              \* what a process may write
  Opens,              \* how files may be opened: <<f, whether with O_TRUNC>>
  Reads,              \* the reads: <<f, length>>
  Writes,             \* the writes: <<f, value, length>>
  Nil

ASSUME FileDataAssumption ==
  /\ {NDIRECT, BSIZE, NBLOCKS, BPB} \subseteq Nat \ {0} /\ MAXOPBLOCKS \in Nat /\ MAXOPBLOCKS >= 6
  /\ ip \in [OpenFile -> Ino] /\ Opens \subseteq OpenFile \X BOOLEAN
  /\ Reads \subseteq OpenFile \X (Nat \ {0})
  /\ Writes \subseteq OpenFile \X Value \X (Nat \ {0})
  /\ Nil \notin FdProc \union OpenFile \union Value

DataBlock == 1..NBLOCKS
BBLOCK(b) == NBLOCKS + 1 + (b \div BPB)   \* the bitmap block of block b
NINDIRECT == BSIZE
MAXFILE == NDIRECT + NINDIRECT

VARIABLES
  bitmap,      \* the data blocks marked in use
  cells,       \* block -> its cells: <<v, j>> for byte j of a file, of value v;
               \* <<Nil, n>> for the number n
  addrs, size, \* of each inode
  ilocked,     \* inode -> the process that holds ip->lock, or Nil
  off,         \* f->off
  wr,          \* the locals of each process in filewrite or open
  content      \* history: inode -> the values of its bytes

fdVars == <<bitmap, cells, addrs, size, ilocked, off, wr, content>>

\* f, its value v, the bytes left of the write; n1, tot and off of the round; the
\* blocks its transaction has logged; the block b that balloc has found, and k: the
\* bitmap block that balloc is at, or the place that itrunc is at.
NotWriting == [pc |-> "idle", f |-> Nil, v |-> Nil, left |-> 0, n1 |-> 0, tot |-> 0, off |-> 0,
               logged |-> {}, b |-> 0, k |-> 0]
Zeroed == [j \in 0..(BSIZE - 1) |-> <<Nil, 0>>]

FdInit ==
  /\ bitmap = {}
  /\ cells = [b \in DataBlock |-> Zeroed]
  /\ addrs = [x \in Ino |-> [k \in 0..NDIRECT |-> 0]]
  /\ size = [x \in Ino |-> 0]
  /\ ilocked = [x \in Ino |-> Nil]
  /\ off = [f \in OpenFile |-> 0]
  /\ wr = [p \in FdProc |-> NotWriting]
  /\ content = [x \in Ino |-> <<>>]

InoOf(p) == ip[wr[p].f]          \* f->ip
BnOf(p) == wr[p].off \div BSIZE  \* the block writei is at

-----------------------------------------------------------------------------
(* bmap and balloc, called by writei *)

\* The block that holds block bn of inode x, 0 if there is none yet.
BlockOf(x, bn) ==
  IF bn < NDIRECT THEN addrs[x][bn]
  ELSE IF addrs[x][NDIRECT] = 0 THEN 0 ELSE cells[addrs[x][NDIRECT]][bn - NDIRECT][2]

\* The loop of writei needs a block.
Allocating(p) == wr[p].pc = "loop" /\ wr[p].tot < wr[p].n1 /\ BlockOf(InoOf(p), BnOf(p)) = 0

\* The free blocks of the bitmap block that balloc is at.
FreeHere(p) == {b \in DataBlock \ bitmap : b \div BPB = wr[p].k}

\* The first free block is marked; the bitmap block is released.
balloc(p) ==
  /\ Allocating(p)
  /\ FreeHere(p) # {}
  /\ LET b == Min(FreeHere(p))
     IN /\ bitmap' = bitmap \union {b}
        /\ wr' = [wr EXCEPT ![p].pc = "zero", ![p].b = b, ![p].k = 0,
                            ![p].logged = @ \union {BBLOCK(b)}]
  /\ UNCHANGED <<cells, addrs, size, ilocked, off, content>>

\* No block is free here: balloc goes on to the next bitmap block, or fails, which
\* ends the loop of writei.
BallocFull(p) ==
  /\ Allocating(p)
  /\ FreeHere(p) = {}
  /\ wr' = IF wr[p].k < NBLOCKS \div BPB THEN [wr EXCEPT ![p].k = @ + 1]
           ELSE [wr EXCEPT ![p].pc = "end", ![p].k = 0]
  /\ UNCHANGED <<bitmap, cells, addrs, size, ilocked, off, content>>

\* Mutant of bzero: the block keeps its contents.
BzeroSkipped(p) ==
  /\ wr[p].pc = "zero"
  /\ wr' = [wr EXCEPT ![p].pc = "map"]
  /\ UNCHANGED <<bitmap, cells, addrs, size, ilocked, off, content>>

bzero(p) ==
  /\ wr[p].pc = "zero"
  /\ cells' = [cells EXCEPT ![wr[p].b] = Zeroed]
  /\ wr' = [wr EXCEPT ![p].pc = "map", ![p].logged = @ \union {wr[p].b}]
  /\ UNCHANGED <<bitmap, addrs, size, ilocked, off, content>>

\* bmap records the block that balloc returned: a direct address, the indirect
\* block itself, or an entry of it.
bmap(p) ==
  LET x == InoOf(p)
      root == addrs[x][NDIRECT]
  IN /\ wr[p].pc = "map"
     /\ IF BnOf(p) < NDIRECT \/ root = 0
          THEN /\ addrs' = [addrs EXCEPT ![x][Min({BnOf(p), NDIRECT})] = wr[p].b]
               /\ wr' = [wr EXCEPT ![p].pc = "loop", ![p].b = 0]
               /\ UNCHANGED cells
          ELSE /\ cells' = [cells EXCEPT ![root][BnOf(p) - NDIRECT] = <<Nil, wr[p].b>>]
               /\ wr' = [wr EXCEPT ![p].pc = "loop", ![p].b = 0, ![p].logged = @ \union {root}]
               /\ UNCHANGED addrs
     /\ UNCHANGED <<bitmap, size, ilocked, off, content>>

-----------------------------------------------------------------------------
(* filewrite and writei *)

\* Mutant of max: without the two blocks of slop.
MaxNoSlop == ((MAXOPBLOCKS - 1 - 1) \div 2) * BSIZE

\* The most bytes that filewrite gives to one transaction.
max == ((MAXOPBLOCKS - 1 - 1 - 2) \div 2) * BSIZE

\* One round of filewrite, for the left bytes of a write to f: begin_op, ilock
\* and the tests of writei.
Round(p, f, v, left) ==
  LET n1 == Min({left, max})
      o == off[f]
  IN /\ ilocked[ip[f]] = Nil
     /\ IF o > size[ip[f]] \/ o + n1 > MAXFILE * BSIZE
          THEN wr' = [wr EXCEPT ![p] = NotWriting] /\ UNCHANGED ilocked
          ELSE /\ ilocked' = [ilocked EXCEPT ![ip[f]] = p]
               /\ wr' = [wr EXCEPT ![p] = [NotWriting EXCEPT !.pc = "loop", !.f = f, !.v = v,
                                             !.left = left, !.n1 = n1, !.off = o]]
     /\ UNCHANGED <<bitmap, cells, addrs, size, off, content>>

filewrite(p, f, v, n) == wr[p].pc = "idle" /\ Round(p, f, v, n)

NextRound(p) == wr[p].pc = "begin" /\ Round(p, wr[p].f, wr[p].v, wr[p].left)

\* The bytes of one iteration: to the end of the request or of the block.
Chunk(p) == Min({wr[p].n1 - wr[p].tot, BSIZE - (wr[p].off % BSIZE)})

\* m bytes, copied into the block at the current offset.
Copied(p, m) ==
  LET at == wr[p].off % BSIZE
  IN [cells EXCEPT ![BlockOf(InoOf(p), BnOf(p))] =
        [j \in 0..(BSIZE - 1) |->
           IF j \in at..(at + m - 1) THEN <<wr[p].v, wr[p].off + j - at>> ELSE @[j]]]

Copying(p) == wr[p].pc = "loop" /\ wr[p].tot < wr[p].n1 /\ BlockOf(InoOf(p), BnOf(p)) # 0

\* One iteration of writei: copy and log_write.
writei(p) ==
  /\ Copying(p)
  /\ cells' = Copied(p, Chunk(p))
  /\ wr' = [wr EXCEPT ![p].tot = @ + Chunk(p), ![p].off = @ + Chunk(p),
                      ![p].logged = @ \union {BlockOf(InoOf(p), BnOf(p))}]
  /\ UNCHANGED <<bitmap, addrs, size, ilocked, off, content>>

\* s with n bytes of value v from offset o on.
Written(s, v, o, n) ==
  [k \in 1..Max({Len(s), o + n}) |-> IF k \in (o + 1)..(o + n) THEN v ELSE s[k]]

\* either_copyin fails after m bytes (those of the pages before the bad one): the
\* loop ends without log_write, but the bytes are in the buffer and can be read.
\* (When it is recycled before its block is logged, the old ones come back.)
WriteFault(p) ==
  \E m \in 0..(Chunk(p) - 1) :
    LET end == Min({wr[p].off + m, Len(content[InoOf(p)])})
    IN /\ Copying(p)
       /\ cells' = Copied(p, m)
       /\ content' = IF end <= wr[p].off THEN content
                     ELSE [content EXCEPT ![InoOf(p)] = Written(@, wr[p].v, wr[p].off, end - wr[p].off)]
       /\ wr' = [wr EXCEPT ![p].pc = "end"]
       /\ UNCHANGED <<bitmap, addrs, size, ilocked, off>>

\* The end of writei and of the round: the size, iupdate, f->off, iunlock and
\* end_op; a short write ends the call.
WriteEnd(p) ==
  LET x == InoOf(p)
  IN /\ wr[p].pc = "end" \/ (wr[p].pc = "loop" /\ wr[p].tot = wr[p].n1)
     /\ size' = [size EXCEPT ![x] = Max({@, wr[p].off})]
     /\ off' = [off EXCEPT ![wr[p].f] = @ + wr[p].tot]
     /\ ilocked' = [ilocked EXCEPT ![x] = Nil]
     /\ content' = [content EXCEPT ![x] = Written(@, wr[p].v, wr[p].off - wr[p].tot, wr[p].tot)]
     /\ wr' = [wr EXCEPT ![p] = IF wr[p].tot # wr[p].n1 \/ wr[p].n1 = wr[p].left THEN NotWriting
                ELSE [NotWriting EXCEPT !.pc = "begin", !.f = wr[p].f, !.v = wr[p].v,
                                        !.left = wr[p].left - wr[p].n1]]
     /\ UNCHANGED <<bitmap, cells, addrs>>

-----------------------------------------------------------------------------
(* fileread *)

\* Mutant of fileread: the inode is not locked.
FilereadUnlocked(p, f, n) ==
  /\ wr[p].pc = "idle"
  /\ off[f] < size[ip[f]]
  /\ off' = [off EXCEPT ![f] = @ + Min({n, size[ip[f]] - @})]
  /\ UNCHANGED <<bitmap, cells, addrs, size, ilocked, wr, content>>

\* readi copies what there is, up to n bytes; a read that fails, or that is at
\* or beyond the end, changes nothing.
fileread(p, f, n) ==
  /\ wr[p].pc = "idle"
  /\ ilocked[ip[f]] = Nil
  /\ off[f] < size[ip[f]]
  /\ off' = [off EXCEPT ![f] = @ + Min({n, size[ip[f]] - @})]
  /\ UNCHANGED <<bitmap, cells, addrs, size, ilocked, wr, content>>

-----------------------------------------------------------------------------
(* open, itrunc and bfree *)

\* f is closed and opened again, with O_TRUNC or without.
reopen(p, f, trunc) ==
  /\ wr[p].pc = "idle"
  /\ \A q \in FdProc : wr[q].f # f
  /\ ilocked[ip[f]] = Nil
  /\ off' = [off EXCEPT ![f] = 0]
  /\ IF trunc THEN /\ ilocked' = [ilocked EXCEPT ![ip[f]] = p]
                   /\ wr' = [wr EXCEPT ![p] = [NotWriting EXCEPT !.pc = "trunc", !.f = f]]
              ELSE UNCHANGED <<ilocked, wr>>
  /\ UNCHANGED <<bitmap, cells, addrs, size, content>>

\* The places of an inode in the order of itrunc: its blocks, then the indirect
\* block.
Places == 0..MAXFILE
AddrAt(x, k) == IF k = MAXFILE THEN addrs[x][NDIRECT] ELSE BlockOf(x, k)

\* The blocks that itrunc has yet to free.
Ahead(p) == {k \in Places : wr[p].k <= k /\ AddrAt(InoOf(p), k) # 0}

\* Mutant of bfree: the indirect block is not freed.
BfreeKeepsIndirect(p) ==
  LET k == Min(Ahead(p))
  IN /\ wr[p].pc = "trunc" /\ Ahead(p) # {}
     /\ bitmap' = IF k = MAXFILE THEN bitmap ELSE bitmap \ {AddrAt(InoOf(p), k)}
     /\ wr' = IF k \in NDIRECT..(MAXFILE - 1) THEN [wr EXCEPT ![p].k = k + 1]
              ELSE [wr EXCEPT ![p].pc = "clear", ![p].k = k]
     /\ UNCHANGED <<cells, addrs, size, ilocked, off, content>>

\* itrunc frees the next block.  The entries of the indirect block stay as they
\* are; an address of the inode is cleared after this step.
bfree(p) ==
  LET k == Min(Ahead(p))
      b == AddrAt(InoOf(p), k)
  IN /\ wr[p].pc = "trunc" /\ Ahead(p) # {}
     /\ bitmap' = bitmap \ {b}
     /\ wr' = IF b \notin bitmap THEN [wr EXCEPT ![p].pc = "panic"]
              ELSE IF k \in NDIRECT..(MAXFILE - 1) THEN [wr EXCEPT ![p].k = k + 1]
              ELSE [wr EXCEPT ![p].pc = "clear", ![p].k = k]
     /\ UNCHANGED <<cells, addrs, size, ilocked, off, content>>

ItruncClears(p) ==
  /\ wr[p].pc = "clear"
  /\ addrs' = [addrs EXCEPT ![InoOf(p)][Min({wr[p].k, NDIRECT})] = 0]
  /\ wr' = [wr EXCEPT ![p].pc = "trunc", ![p].k = @ + 1]
  /\ UNCHANGED <<bitmap, cells, size, ilocked, off, content>>

\* The size, iupdate, iunlock and end_op.
ItruncEnd(p) ==
  /\ wr[p].pc = "trunc" /\ Ahead(p) = {}
  /\ size' = [size EXCEPT ![InoOf(p)] = 0]
  /\ content' = [content EXCEPT ![InoOf(p)] = <<>>]
  /\ ilocked' = [ilocked EXCEPT ![InoOf(p)] = Nil]
  /\ wr' = [wr EXCEPT ![p] = NotWriting]
  /\ UNCHANGED <<bitmap, cells, addrs, off>>

-----------------------------------------------------------------------------
\* A process calls write, read or open.
FdCall(p) ==
  \/ \E w \in Writes : filewrite(p, w[1], w[2], w[3])
  \/ \E r \in Reads : fileread(p, r[1], r[2])
  \/ \E o \in Opens : reopen(p, o[1], o[2])

\* A process goes on with its call.
FdStep(p) ==
  \/ NextRound(p) \/ balloc(p) \/ BallocFull(p) \/ bzero(p) \/ bmap(p)
  \/ writei(p) \/ WriteFault(p) \/ WriteEnd(p)
  \/ bfree(p) \/ ItruncClears(p) \/ ItruncEnd(p)

FdNext == \E p \in FdProc : FdCall(p) \/ FdStep(p)

FdSpec == FdInit /\ [][FdNext]_fdVars

-----------------------------------------------------------------------------
(* Properties *)

Inside(p) == wr[p].pc \in {"loop", "zero", "map", "end"}   \* in writei

\* itrunc has given back the block at place k of inode x, which is listed still.
Released(x, k) ==
  \E p \in FdProc : /\ ilocked[x] = p /\ wr[p].pc \in {"trunc", "clear"}
                    /\ k < wr[p].k \/ (k = wr[p].k /\ wr[p].pc = "clear")

\* The bitmap and the inodes agree between any two steps: a block in use is at
\* exactly one place of one file or in the hands of one process between balloc
\* and bmap, whatever fails; every other block is free, though itrunc leaves
\* addresses of freed blocks where they are for a while and another process may
\* own those blocks by then.  So no block is lost, and bfree never panics.
BlocksOwnedOnce ==
  LET own == {at \in Ino \X Places : AddrAt(at[1], at[2]) # 0 /\ ~Released(at[1], at[2])}
      inHand == {p \in FdProc : wr[p].pc \in {"zero", "map"}}
  IN /\ bitmap = {AddrAt(at[1], at[2]) : at \in own} \union {wr[p].b : p \in inHand}
     /\ Cardinality(bitmap) = Cardinality(own) + Cardinality(inHand)
     /\ \A p \in FdProc : wr[p].pc # "panic"

\* A file is as long as what writes to it have reported, and each of its bytes,
\* found through bmap, is the last one written there, through whichever open
\* file: what blocks held before they were freed and found again never shows
\* through, neither as bytes nor as block numbers; a write that fails changes
\* bytes of its own range only, and what it leaves beyond the end of the file
\* stays unseen.
ContentMatches ==
  \A x \in Ino : ilocked[x] = Nil =>
    /\ size[x] = Len(content[x])
    /\ \A k \in 1..size[x] :
         LET b == BlockOf(x, (k - 1) \div BSIZE)
         IN b \in bitmap /\ cells[b][(k - 1) % BSIZE] = <<content[x][k], k - 1>>

\* A process inside writei is where its open file says it is: nobody who shares
\* the file moves f->off meanwhile, so that writes through a shared file follow
\* each other and none overwrites another.
OffsetHeld ==
  \A p \in FdProc : Inside(p) => wr[p].off - wr[p].tot = off[wr[p].f]

\* A round of filewrite logs at most the MAXOPBLOCKS blocks that begin_op has
\* reserved for it, the block of the inode included, even if it starts in the
\* middle of a block, reaches the indirect block, and finds every new block in
\* another bitmap block.
TransactionFits ==
  \A p \in FdProc : Inside(p) => Cardinality(wr[p].logged) + 1 <= MAXOPBLOCKS

=============================================================================
