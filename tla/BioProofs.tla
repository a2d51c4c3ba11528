----------------------------- MODULE BioProofs ------------------------------
(***************************************************************************)
(* The buffer cache for any number of processes, buffers and blocks, and   *)
(* any size of the log: no block is cached twice, reference counts are     *)
(* exact, no wakeup of a sleep-lock is lost, and whoever holds a buffer    *)
(* sees what was last stored in its block.                                 *)
(***************************************************************************)
EXTENDS Bio, FiniteSetTheorems, TLAPS

\* Leaves are tried with Zenon first, which is quick to give up.
USE ZenonT(3), SMTT(30)

-----------------------------------------------------------------------------
(* The inductive invariant *)

BioPcs == {"idle", "acquire", "asleep", "read", "locked", "release", "panic"}

BioTypes ==
  /\ blockno \in [Buf -> DiskBlock \union {NIL}]
  /\ valid \in [Buf -> BOOLEAN]
  /\ refcnt \in [Buf -> Nat]
  /\ data \in [Buf -> Data \union {NIL}]
  /\ holder \in [Buf -> BioProc \union {NIL}]
  /\ disk \in [DiskBlock -> Data] /\ latest \in [DiskBlock -> Data]
  /\ pinned \in SUBSET DiskBlock
  /\ bpc \in [BioProc -> BioPcs]
  /\ want \in [BioProc -> DiskBlock \union {NIL}]
  /\ b \in [BioProc -> Buf \union {NIL}]

\* A process between bget and the end of brelse has a buffer, of its block.
Refers ==
  \A p \in BioProc :
    IF bpc[p] \in {"idle", "panic"}
      THEN b[p] = NIL
      ELSE b[p] \in Buf /\ want[p] \in DiskBlock /\ blockno[b[p]] = want[p]

\* b->lock is held by the process that is past acquiresleep and not past
\* releasesleep; who sleeps on it sleeps while it is held.
Locking ==
  /\ \A p \in BioProc, x \in Buf :
       holder[x] = p <=> (bpc[p] \in {"read", "locked"} /\ b[p] = x)
  /\ \A p \in BioProc : bpc[p] = "asleep" => holder[b[p]] # NIL

Users(x) == {p \in BioProc : b[p] = x}
Pins(x) == IF blockno[x] \in pinned THEN 1 ELSE 0
Counts == \A x \in Buf : refcnt[x] = Cardinality(Users(x)) + Pins(x)

\* A valid buffer has what was last stored in its block; the disk has it unless
\* the block is pinned; a pinned block is in a valid buffer.
Contents ==
  /\ \A x \in Buf : valid[x] /\ blockno[x] # NIL => data[x] = latest[blockno[x]]
  /\ \A n \in DiskBlock : n \notin pinned => disk[n] = latest[n]
  /\ \A n \in pinned : \E x \in Buf : blockno[x] = n /\ valid[x]
  /\ \A p \in BioProc : bpc[p] = "locked" => valid[b[p]]

BioInv == BioTypes /\ Refers /\ Locking /\ OneBufferPerBlock /\ Counts /\ Contents

-----------------------------------------------------------------------------
(* Counting the users of a buffer *)

\* The set of users is finite, as the process table is.
LEMMA UsersFinite ==
  ASSUME NEW x
  PROVE  IsFiniteSet(Users(x)) /\ Cardinality(Users(x)) \in Nat
  BY BioAssumption, FS_Subset, FS_CardinalityType DEF Users

\* bget makes its caller a user of the buffer it returns, and of no other.
LEMMA OneMoreUser ==
  ASSUME NEW p \in BioProc, NEW x \in Buf, BioTypes, b[p] = NIL, b' = [b EXCEPT ![p] = x]
  PROVE  \A y \in Buf : Cardinality(Users(y)') = Cardinality(Users(y)) + (IF y = x THEN 1 ELSE 0)
<1> SUFFICES ASSUME NEW y \in Buf
             PROVE  Cardinality(Users(y)') = Cardinality(Users(y)) + (IF y = x THEN 1 ELSE 0)
  OBVIOUS
<1>0. x # NIL /\ y # NIL
  BY BioAssumption
<1>1. CASE y = x
  <2>1. Users(y)' = Users(y) \union {p} /\ p \notin Users(y)
    BY <1>0, <1>1 DEF Users, BioTypes
  <2> QED
    BY <2>1, <1>1, UsersFinite, FS_AddElement
<1>2. CASE y # x
  <2>1. Users(y)' = Users(y)
    BY <1>0, <1>2 DEF Users, BioTypes
  <2> QED
    BY <2>1, <1>2, UsersFinite
<1> QED
  BY <1>1, <1>2

\* brelse makes its caller no longer a user of its buffer.
LEMMA OneUserLess ==
  ASSUME NEW p \in BioProc, BioTypes, b[p] \in Buf, b' = [b EXCEPT ![p] = NIL]
  PROVE  /\ \A y \in Buf : Cardinality(Users(y)') = Cardinality(Users(y)) - (IF y = b[p] THEN 1 ELSE 0)
         /\ Cardinality(Users(b[p])) > 0
<1>0. \A y \in Buf : y # NIL
  BY BioAssumption
<1>1. p \in Users(b[p])
  BY DEF Users
<1>2. Cardinality(Users(b[p])) > 0
  BY <1>1, UsersFinite, FS_EmptySet
<1>3. ASSUME NEW y \in Buf
      PROVE  Cardinality(Users(y)') = Cardinality(Users(y)) - (IF y = b[p] THEN 1 ELSE 0)
  <2>1. CASE y = b[p]
    <3>1. Users(y)' = Users(y) \ {p} /\ p \in Users(y)
      BY <1>0, <2>1 DEF Users, BioTypes
    <3> QED
      BY <3>1, <2>1, UsersFinite, FS_RemoveElement
  <2>2. CASE y # b[p]
    <3>1. Users(y)' = Users(y)
      BY <1>0, <2>2 DEF Users, BioTypes
    <3> QED
      BY <3>1, <2>2, UsersFinite
  <2> QED
    BY <2>1, <2>2
<1> QED
  BY <1>2, <1>3

-----------------------------------------------------------------------------
(* What a step keeps *)

\* A process with a buffer counts in its refcnt, next to the pin of its block.
LEMMA CountPositive ==
  ASSUME BioInv, NEW p \in BioProc, b[p] \in Buf
  PROVE  /\ refcnt[b[p]] \in Nat /\ refcnt[b[p]] >= 1
         /\ blockno[b[p]] \in pinned => refcnt[b[p]] >= 2
<1>1. p \in Users(b[p])
  BY DEF Users
<1>2. Cardinality(Users(b[p])) \in Nat /\ Cardinality(Users(b[p])) > 0
  BY <1>1, UsersFinite, FS_EmptySet
<1>3. refcnt[b[p]] = Cardinality(Users(b[p])) + Pins(b[p])
  BY DEF BioInv, Counts
<1> QED
  BY <1>2, <1>3 DEF Pins

\* A buffer that nobody refers to is unused: no process has it and its block is
\* not pinned.
LEMMA UnusedIsFree ==
  ASSUME BioInv, NEW x \in Buf, refcnt[x] = 0
  PROVE  /\ \A p \in BioProc : b[p] # x
         /\ blockno[x] \notin pinned
<1>1. Cardinality(Users(x)) \in Nat /\ refcnt[x] = Cardinality(Users(x)) + Pins(x)
  BY UsersFinite DEF BioInv, Counts
<1>2. Cardinality(Users(x)) = 0 /\ Pins(x) = 0
  BY <1>1 DEF Pins
<1>3. Users(x) = {}
  BY <1>2, UsersFinite, FS_EmptySet
<1> QED
  BY <1>2, <1>3 DEF Users, Pins

\* Every step keeps the types; in particular no count is taken below 0.
LEMMA TypesKept ==
  ASSUME BioInv, BioNext
  PROVE  BioTypes'
<1> USE DEF BioInv, BioTypes, Goto, BioPcs
<1>1. ASSUME NEW p \in BioProc, NEW n \in DiskBlock, bget(p, n)
      PROVE  BioTypes'
  BY <1>1, BioAssumption DEF bget, Cached
<1>2. ASSUME NEW p \in BioProc, NEW n \in DiskBlock, BgetRecycles(p, n)
      PROVE  BioTypes'
  BY <1>2, BioAssumption DEF BgetRecycles, Refers
<1>3. ASSUME NEW p \in BioProc, NEW n \in DiskBlock, BgetPanics(p, n)
      PROVE  BioTypes'
  BY <1>3, BioAssumption DEF BgetPanics, Refers
<1>4. ASSUME NEW p \in BioProc, acquiresleep(p)
      PROVE  BioTypes'
  BY <1>4, BioAssumption DEF acquiresleep, Refers
<1>5. ASSUME NEW p \in BioProc, bread(p)
      PROVE  BioTypes'
  <2>1. b[p] \in Buf /\ blockno[b[p]] \in DiskBlock
    BY <1>5 DEF bread, Refers
  <2>2. disk[blockno[b[p]]] \in Data
    BY <2>1
  <2> QED
    BY <1>5, <2>1, <2>2 DEF bread
<1>6. ASSUME NEW p \in BioProc, NEW d \in Data, bpin(p, d)
      PROVE  BioTypes'
  BY <1>6, BioAssumption DEF bpin, Refers
<1>7. ASSUME NEW p \in BioProc, bunpin(p)
      PROVE  BioTypes'
  <2>1. b[p] \in Buf /\ blockno[b[p]] = want[p] /\ want[p] \in DiskBlock /\ want[p] \in pinned
    BY <1>7 DEF bunpin, Refers
  <2>2. refcnt[b[p]] - 1 \in Nat
    BY <2>1, CountPositive
  <2>3. data[b[p]] \in Data
    BY <2>1, <1>7, BioAssumption DEF bunpin, Contents
  <2> QED
    BY <1>7, <2>1, <2>2, <2>3 DEF bunpin
<1>8. ASSUME NEW p \in BioProc, releasesleep(p)
      PROVE  BioTypes'
  BY <1>8, BioAssumption DEF releasesleep, Refers
<1>9. ASSUME NEW p \in BioProc, brelse(p)
      PROVE  BioTypes'
  <2>1. b[p] \in Buf
    BY <1>9 DEF brelse, Refers
  <2>2. refcnt[b[p]] - 1 \in Nat
    BY <2>1, CountPositive
  <2> QED
    BY <1>9, <2>1, <2>2 DEF brelse
<1> QED
  BY <1>1, <1>2, <1>3, <1>4, <1>5, <1>6, <1>7, <1>8, <1>9 DEF BioNext

\* Every step keeps the block of a buffer that some process has: only a buffer
\* with refcnt 0 is recycled.
LEMMA RefersKept ==
  ASSUME BioInv, BioNext
  PROVE  Refers'
<1> USE DEF BioInv, BioTypes, Refers, Goto, BioPcs
<1>1. ASSUME NEW p \in BioProc, NEW n \in DiskBlock, bget(p, n)
      PROVE  Refers'
  BY <1>1, BioAssumption DEF bget, Cached
<1>2. ASSUME NEW p \in BioProc, NEW n \in DiskBlock, BgetRecycles(p, n)
      PROVE  Refers'
  <2>1. PICK x \in Buf : Unused(x) /\ blockno' = [blockno EXCEPT ![x] = n]
                          /\ b' = [b EXCEPT ![p] = x]
    BY <1>2 DEF BgetRecycles
  <2>2. \A q \in BioProc : b[q] # x
    BY <2>1, UnusedIsFree DEF Unused
  <2> QED
    BY <1>2, <2>1, <2>2, BioAssumption DEF BgetRecycles
<1>3. ASSUME NEW p \in BioProc, NEW n \in DiskBlock, BgetPanics(p, n)
      PROVE  Refers'
  BY <1>3, BioAssumption DEF BgetPanics
<1>4. ASSUME NEW p \in BioProc, acquiresleep(p)
      PROVE  Refers'
  BY <1>4, BioAssumption DEF acquiresleep
<1>5. ASSUME NEW p \in BioProc, bread(p)
      PROVE  Refers'
  BY <1>5, BioAssumption DEF bread
<1>6. ASSUME NEW p \in BioProc, NEW d \in Data, bpin(p, d)
      PROVE  Refers'
  BY <1>6, BioAssumption DEF bpin
<1>7. ASSUME NEW p \in BioProc, bunpin(p)
      PROVE  Refers'
  BY <1>7, BioAssumption DEF bunpin
<1>8. ASSUME NEW p \in BioProc, releasesleep(p)
      PROVE  Refers'
  BY <1>8, BioAssumption DEF releasesleep
<1>9. ASSUME NEW p \in BioProc, brelse(p)
      PROVE  Refers'
  BY <1>9, BioAssumption DEF brelse
<1> QED
  BY <1>1, <1>2, <1>3, <1>4, <1>5, <1>6, <1>7, <1>8, <1>9 DEF BioNext

\* Every step keeps the lock of a buffer with its one holder; whoever is made to
\* sleep found it held, and releasesleep wakes all who sleep on it.
LEMMA LockingKept ==
  ASSUME BioInv, BioNext
  PROVE  Locking'
<1> USE DEF BioInv, BioTypes, Refers, Locking, Goto, BioPcs
<1>1. ASSUME NEW p \in BioProc, NEW n \in DiskBlock, bget(p, n)
      PROVE  Locking'
  BY <1>1, BioAssumption DEF bget, Cached
<1>2. ASSUME NEW p \in BioProc, NEW n \in DiskBlock, BgetRecycles(p, n)
      PROVE  Locking'
  BY <1>2, BioAssumption DEF BgetRecycles
<1>3. ASSUME NEW p \in BioProc, NEW n \in DiskBlock, BgetPanics(p, n)
      PROVE  Locking'
  BY <1>3, BioAssumption DEF BgetPanics
<1>4. ASSUME NEW p \in BioProc, acquiresleep(p)
      PROVE  Locking'
  BY <1>4, BioAssumption DEF acquiresleep
<1>5. ASSUME NEW p \in BioProc, bread(p)
      PROVE  Locking'
  BY <1>5, BioAssumption DEF bread
<1>6. ASSUME NEW p \in BioProc, NEW d \in Data, bpin(p, d)
      PROVE  Locking'
  BY <1>6, BioAssumption DEF bpin
<1>7. ASSUME NEW p \in BioProc, bunpin(p)
      PROVE  Locking'
  BY <1>7, BioAssumption DEF bunpin
<1>8. ASSUME NEW p \in BioProc, releasesleep(p)
      PROVE  Locking'
  BY <1>8, BioAssumption DEF releasesleep
<1>9. ASSUME NEW p \in BioProc, brelse(p)
      PROVE  Locking'
  BY <1>9, BioAssumption DEF brelse
<1> QED
  BY <1>1, <1>2, <1>3, <1>4, <1>5, <1>6, <1>7, <1>8, <1>9 DEF BioNext

\* Every step keeps one buffer per block: bget recycles one under bcache.lock, in
\* the section that found the block in none.
LEMMA OneBufferKept ==
  ASSUME BioInv, BioNext
  PROVE  OneBufferPerBlock'
<1> USE DEF BioInv, BioTypes, OneBufferPerBlock, Goto
<1>1. ASSUME NEW p \in BioProc, NEW n \in DiskBlock, bget(p, n)
      PROVE  OneBufferPerBlock'
  BY <1>1 DEF bget
<1>2. ASSUME NEW p \in BioProc, NEW n \in DiskBlock, BgetRecycles(p, n)
      PROVE  OneBufferPerBlock'
  BY <1>2 DEF BgetRecycles, Cached
<1>3. ASSUME NEW p \in BioProc, NEW n \in DiskBlock, BgetPanics(p, n)
      PROVE  OneBufferPerBlock'
  BY <1>3 DEF BgetPanics
<1>4. ASSUME NEW p \in BioProc, acquiresleep(p)
      PROVE  OneBufferPerBlock'
  BY <1>4 DEF acquiresleep
<1>5. ASSUME NEW p \in BioProc, bread(p)
      PROVE  OneBufferPerBlock'
  BY <1>5 DEF bread
<1>6. ASSUME NEW p \in BioProc, NEW d \in Data, bpin(p, d)
      PROVE  OneBufferPerBlock'
  BY <1>6 DEF bpin
<1>7. ASSUME NEW p \in BioProc, bunpin(p)
      PROVE  OneBufferPerBlock'
  BY <1>7 DEF bunpin
<1>8. ASSUME NEW p \in BioProc, releasesleep(p)
      PROVE  OneBufferPerBlock'
  BY <1>8 DEF releasesleep
<1>9. ASSUME NEW p \in BioProc, brelse(p)
      PROVE  OneBufferPerBlock'
  BY <1>9 DEF brelse
<1> QED
  BY <1>1, <1>2, <1>3, <1>4, <1>5, <1>6, <1>7, <1>8, <1>9 DEF BioNext

\* Every step keeps the counts: bget and bpin add what brelse and bunpin take.
LEMMA CountsKept ==
  ASSUME BioInv, BioNext
  PROVE  Counts'
<1> USE DEF BioInv, Goto
<1>1. ASSUME NEW p \in BioProc, NEW n \in DiskBlock, bget(p, n)
      PROVE  Counts'
  <2>1. PICK x \in Buf : refcnt' = [refcnt EXCEPT ![x] = @ + 1] /\ b' = [b EXCEPT ![p] = x]
    BY <1>1 DEF bget, Cached
  <2>2. b[p] = NIL
    BY <1>1 DEF bget, Refers
  <2>3. \A y \in Buf : Pins(y)' = Pins(y) /\ Pins(y) \in Nat
    BY <1>1 DEF bget, Pins
  <2>4. \A y \in Buf : Cardinality(Users(y)') = Cardinality(Users(y)) + (IF y = x THEN 1 ELSE 0)
    BY <2>1, <2>2, OneMoreUser
  <2>5. \A y \in Buf : refcnt'[y] = refcnt[y] + (IF y = x THEN 1 ELSE 0)
    BY <2>1 DEF BioTypes
  <2>6. \A y \in Buf : Cardinality(Users(y)) \in Nat /\ refcnt[y] = Cardinality(Users(y)) + Pins(y)
    BY UsersFinite DEF Counts
  <2>7. \A y \in Buf : refcnt'[y] = Cardinality(Users(y)') + Pins(y)'
    BY <2>3, <2>4, <2>5, <2>6
  <2> QED
    BY <2>7 DEF Counts
<1>2. ASSUME NEW p \in BioProc, NEW n \in DiskBlock, BgetRecycles(p, n)
      PROVE  Counts'
  <2>1. PICK x \in Buf : /\ Unused(x) /\ refcnt' = [refcnt EXCEPT ![x] = 1]
                          /\ b' = [b EXCEPT ![p] = x] /\ blockno' = [blockno EXCEPT ![x] = n]
    BY <1>2 DEF BgetRecycles
  <2>2. b[p] = NIL
    BY <1>2 DEF BgetRecycles, Refers
  <2>3. refcnt[x] = 0
    BY <2>1 DEF Unused
  <2>4. n \notin pinned
    BY <1>2 DEF BgetRecycles, Cached, Contents
  <2>5. \A y \in Buf : y # x => Pins(y)' = Pins(y)
    BY <1>2, <2>1 DEF BgetRecycles, Pins, BioTypes
  <2>6. Pins(x)' = 0
    BY <1>2, <2>1, <2>4 DEF BgetRecycles, Pins, BioTypes
  <2>7. Cardinality(Users(x)) = 0
    BY <2>3, UsersFinite DEF Counts, Pins
  <2>8. \A y \in Buf : Pins(y) \in Nat
    BY DEF Pins
  <2>9. \A y \in Buf : Cardinality(Users(y)') = Cardinality(Users(y)) + (IF y = x THEN 1 ELSE 0)
    BY <2>1, <2>2, OneMoreUser
  <2>10. \A y \in Buf : refcnt'[y] = IF y = x THEN 1 ELSE refcnt[y]
    BY <2>1 DEF BioTypes
  <2>11. \A y \in Buf : Cardinality(Users(y)) \in Nat /\ refcnt[y] = Cardinality(Users(y)) + Pins(y)
    BY UsersFinite DEF Counts
  <2>12. \A y \in Buf : refcnt'[y] = Cardinality(Users(y)') + Pins(y)'
    BY <2>5, <2>6, <2>7, <2>8, <2>9, <2>10, <2>11
  <2> QED
    BY <2>12 DEF Counts
<1>3. ASSUME NEW p \in BioProc, NEW n \in DiskBlock, BgetPanics(p, n)
      PROVE  Counts'
  <2>1. \A y \in Buf : Users(y)' = Users(y) /\ Pins(y)' = Pins(y)
    BY <1>3 DEF BgetPanics, Users, Pins
  <2> QED
    BY <1>3, <2>1 DEF BgetPanics, Counts
<1>4. ASSUME NEW p \in BioProc, acquiresleep(p)
      PROVE  Counts'
  <2>1. \A y \in Buf : Users(y)' = Users(y) /\ Pins(y)' = Pins(y)
    BY <1>4 DEF acquiresleep, Users, Pins
  <2> QED
    BY <1>4, <2>1 DEF acquiresleep, Counts
<1>5. ASSUME NEW p \in BioProc, bread(p)
      PROVE  Counts'
  <2>1. \A y \in Buf : Users(y)' = Users(y) /\ Pins(y)' = Pins(y)
    BY <1>5 DEF bread, Users, Pins
  <2> QED
    BY <1>5, <2>1 DEF bread, Counts
<1>6. ASSUME NEW p \in BioProc, NEW d \in Data, bpin(p, d)
      PROVE  Counts'
  <2>0. b[p] \in Buf /\ blockno[b[p]] = want[p] /\ want[p] \in DiskBlock
    BY <1>6 DEF bpin, Refers
  <2>9. \A y \in Buf : Users(y)' = Users(y)
    BY <1>6 DEF bpin, Users
  <2>1. \A y \in Buf : Cardinality(Users(y)') = Cardinality(Users(y)) /\ Cardinality(Users(y)) \in Nat
    BY <2>9, UsersFinite
  <2>2. CASE want[p] \in pinned
    BY <1>6, <2>1, <2>2, <2>9 DEF bpin, Counts, Pins
  <2>3. CASE want[p] \notin pinned
    <3>1. refcnt' = [refcnt EXCEPT ![b[p]] = @ + 1] /\ pinned' = pinned \union {want[p]}
      BY <1>6, <2>3 DEF bpin
    <3>2. \A y \in Buf : y = b[p] => Pins(y) = 0 /\ Pins(y)' = 1
      BY <1>6, <2>0, <2>3, <3>1 DEF bpin, Pins
    <3>3. \A y \in Buf : y # b[p] => Pins(y)' = Pins(y)
      BY <1>6, <2>0, <3>1, BioAssumption DEF bpin, Pins, OneBufferPerBlock
    <3>4. \A y \in Buf : refcnt'[y] = refcnt[y] + (IF y = b[p] THEN 1 ELSE 0)
      BY <2>0, <3>1 DEF BioTypes
    <3>5. \A y \in Buf : refcnt[y] = Cardinality(Users(y)) + Pins(y) /\ Pins(y) \in Nat
      BY DEF Counts, Pins
    <3>6. \A y \in Buf : refcnt'[y] = Cardinality(Users(y)') + Pins(y)'
      BY <2>0, <2>1, <3>2, <3>3, <3>4, <3>5
    <3> QED
      BY <3>6 DEF Counts
  <2> QED
    BY <2>2, <2>3
<1>7. ASSUME NEW p \in BioProc, bunpin(p)
      PROVE  Counts'
  <2>0. b[p] \in Buf /\ blockno[b[p]] = want[p] /\ want[p] \in DiskBlock /\ want[p] \in pinned
    BY <1>7 DEF bunpin, Refers
  <2>9. \A y \in Buf : Users(y)' = Users(y)
    BY <1>7 DEF bunpin, Users
  <2>1. \A y \in Buf : Cardinality(Users(y)') = Cardinality(Users(y)) /\ Cardinality(Users(y)) \in Nat
    BY <2>9, UsersFinite
  <2>2. refcnt' = [refcnt EXCEPT ![b[p]] = @ - 1] /\ pinned' = pinned \ {want[p]}
    BY <1>7 DEF bunpin
  <2>3. \A y \in Buf : y = b[p] => Pins(y) = 1 /\ Pins(y)' = 0
    BY <1>7, <2>0, <2>2 DEF bunpin, Pins
  <2>4. \A y \in Buf : y # b[p] => Pins(y)' = Pins(y)
    BY <1>7, <2>0, <2>2, BioAssumption DEF bunpin, Pins, OneBufferPerBlock
  <2>5. \A y \in Buf : refcnt'[y] = refcnt[y] - (IF y = b[p] THEN 1 ELSE 0)
    BY <2>0, <2>2 DEF BioTypes
  <2>6. \A y \in Buf : refcnt[y] = Cardinality(Users(y)) + Pins(y) /\ Pins(y) \in Nat
    BY DEF Counts, Pins
  <2>7. \A y \in Buf : refcnt'[y] = Cardinality(Users(y)') + Pins(y)'
    BY <2>0, <2>1, <2>3, <2>4, <2>5, <2>6
  <2> QED
    BY <2>7 DEF Counts
<1>8. ASSUME NEW p \in BioProc, releasesleep(p)
      PROVE  Counts'
  <2>1. \A y \in Buf : Users(y)' = Users(y) /\ Pins(y)' = Pins(y)
    BY <1>8 DEF releasesleep, Users, Pins
  <2> QED
    BY <1>8, <2>1 DEF releasesleep, Counts
<1>9. ASSUME NEW p \in BioProc, brelse(p)
      PROVE  Counts'
  <2>1. b[p] \in Buf /\ b' = [b EXCEPT ![p] = NIL] /\ refcnt' = [refcnt EXCEPT ![b[p]] = @ - 1]
    BY <1>9 DEF brelse, Refers
  <2>2. \A y \in Buf : Pins(y)' = Pins(y) /\ Pins(y) \in Nat
    BY <1>9 DEF brelse, Pins
  <2>3. \A y \in Buf : Cardinality(Users(y)') = Cardinality(Users(y)) - (IF y = b[p] THEN 1 ELSE 0)
    BY <2>1, OneUserLess
  <2>4. \A y \in Buf : refcnt'[y] = refcnt[y] - (IF y = b[p] THEN 1 ELSE 0)
    BY <2>1 DEF BioTypes
  <2>5. \A y \in Buf : Cardinality(Users(y)) \in Nat /\ refcnt[y] = Cardinality(Users(y)) + Pins(y)
    BY UsersFinite DEF Counts
  <2>6. \A y \in Buf : refcnt'[y] = Cardinality(Users(y)') + Pins(y)'
    BY <2>2, <2>3, <2>4, <2>5
  <2> QED
    BY <2>6 DEF Counts
<1> QED
  BY <1>1, <1>2, <1>3, <1>4, <1>5, <1>6, <1>7, <1>8, <1>9 DEF BioNext

\* Every step keeps what the buffers and the disk contain: a block leaves the
\* cache only when the disk has what was last stored in it.
LEMMA ContentsKept ==
  ASSUME BioInv, BioNext
  PROVE  Contents'
<1> USE DEF BioInv, Contents, Goto
<1>1. ASSUME NEW p \in BioProc, NEW n \in DiskBlock, bget(p, n)
      PROVE  Contents'
  BY <1>1 DEF bget, Cached, BioTypes
<1>2. ASSUME NEW p \in BioProc, NEW n \in DiskBlock, BgetRecycles(p, n)
      PROVE  Contents'
  <2>1. PICK x \in Buf : /\ Unused(x) /\ valid' = [valid EXCEPT ![x] = FALSE]
                          /\ b' = [b EXCEPT ![p] = x] /\ blockno' = [blockno EXCEPT ![x] = n]
    BY <1>2 DEF BgetRecycles
  <2>2. /\ UNCHANGED <<data, disk, pinned, latest>>
        /\ \A q \in BioProc : bpc'[q] = "locked" => q # p /\ bpc[q] = "locked"
    BY <1>2 DEF BgetRecycles, BioTypes
  <2>3. blockno[x] \notin pinned /\ \A q \in BioProc : b[q] # x
    BY <2>1, UnusedIsFree DEF Unused
  <2>4. \A y \in Buf : IF y = x THEN blockno'[y] = n /\ ~valid'[y]
                                ELSE blockno'[y] = blockno[y] /\ (valid'[y] <=> valid[y])
    BY <2>1 DEF BioTypes
  <2>5. \A y \in Buf : valid'[y] /\ blockno'[y] # NIL => data'[y] = latest'[blockno'[y]]
    BY <2>2, <2>4
  <2>6. \A m \in DiskBlock : m \notin pinned' => disk'[m] = latest'[m]
    BY <2>2
  <2>7. \A m \in pinned' : \E y \in Buf : blockno'[y] = m /\ valid'[y]
    BY <2>2, <2>3, <2>4
  <2>8. \A q \in BioProc : bpc'[q] = "locked" => valid'[b'[q]]
    BY <2>1, <2>2, <2>3, <2>4 DEF BioTypes, Refers
  <2> QED
    BY <2>5, <2>6, <2>7, <2>8
<1>3. ASSUME NEW p \in BioProc, NEW n \in DiskBlock, BgetPanics(p, n)
      PROVE  Contents'
  BY <1>3, BioAssumption DEF BgetPanics, BioTypes, Refers, OneBufferPerBlock
<1>4. ASSUME NEW p \in BioProc, acquiresleep(p)
      PROVE  Contents'
  BY <1>4, BioAssumption DEF acquiresleep, BioTypes, Refers, OneBufferPerBlock
<1>5. ASSUME NEW p \in BioProc, bread(p)
      PROVE  Contents'
  BY <1>5, BioAssumption DEF bread, BioTypes, Refers, OneBufferPerBlock
<1>6. ASSUME NEW p \in BioProc, NEW d \in Data, bpin(p, d)
      PROVE  Contents'
  BY <1>6, BioAssumption DEF bpin, BioTypes, Refers, OneBufferPerBlock
<1>7. ASSUME NEW p \in BioProc, bunpin(p)
      PROVE  Contents'
  BY <1>7, BioAssumption DEF bunpin, BioTypes, Refers, OneBufferPerBlock
<1>8. ASSUME NEW p \in BioProc, releasesleep(p)
      PROVE  Contents'
  BY <1>8, BioAssumption DEF releasesleep, BioTypes, Refers, OneBufferPerBlock
<1>9. ASSUME NEW p \in BioProc, brelse(p)
      PROVE  Contents'
  BY <1>9, BioAssumption DEF brelse, BioTypes, Refers, OneBufferPerBlock
<1> QED
  BY <1>1, <1>2, <1>3, <1>4, <1>5, <1>6, <1>7, <1>8, <1>9 DEF BioNext

-----------------------------------------------------------------------------
(* Theorems *)

\* binit establishes the invariant.
LEMMA BioStarts ==
  ASSUME BioInit
  PROVE  BioInv
<1> USE DEF BioInit
<1>1. BioTypes /\ Refers /\ Locking /\ OneBufferPerBlock /\ Contents
  BY BioAssumption DEF BioTypes, BioPcs, Refers, Locking, OneBufferPerBlock, Contents
<1>2. ASSUME NEW x \in Buf
      PROVE  refcnt[x] = Cardinality(Users(x)) + Pins(x)
  <2>1. Users(x) = {}
    BY BioAssumption DEF Users
  <2>2. Cardinality(Users(x)) = 0
    BY <2>1, FS_EmptySet
  <2> QED
    BY <2>2 DEF Pins
<1> QED
  BY <1>1, <1>2 DEF BioInv, Counts

\* The inductive invariant of the buffer cache holds throughout bget, bread,
\* log_write, install_trans and brelse of any number of processes.
THEOREM BioInvariant == BioSpec => []BioInv
<1>1. BioInit => BioInv
  BY BioStarts
<1>2. BioInv /\ [BioNext]_bioVars => BioInv'
  <2>1. ASSUME BioInv, BioNext
        PROVE  BioInv'
    <3>1. BioTypes' /\ Refers' /\ Locking'
      BY <2>1, TypesKept, RefersKept, LockingKept
    <3>2. OneBufferPerBlock' /\ Counts' /\ Contents'
      BY <2>1, OneBufferKept, CountsKept, ContentsKept
    <3> QED
      BY <3>1, <3>2 DEF BioInv
  <2>2. ASSUME BioInv, UNCHANGED bioVars
        PROVE  BioInv'
    BY <2>2 DEF bioVars, BioInv, BioTypes, Refers, Locking, OneBufferPerBlock, Counts, Users,
       Pins, Contents
  <2> QED
    BY <2>1, <2>2
<1> QED
  BY <1>1, <1>2, PTL DEF BioSpec

\* refcnt of a buffer is the number of processes between bget and brelse of it
\* plus one if its block is pinned; no block is in two buffers; and whoever
\* sleeps in acquiresleep sleeps on a lock that another process holds.
THEOREM RefcntExactHolds == BioSpec => []RefcntExact
<1>1. ASSUME BioInv
      PROVE  RefcntExact
  <2> USE <1>1 DEF BioInv
  <2>1. OneBufferPerBlock
    OBVIOUS
  <2>2. SleeperHasHolder
    BY DEF SleeperHasHolder, Locking, Refers, BioTypes
  <2>3. ASSUME NEW x \in Buf
        PROVE  refcnt[x] = Cardinality({p \in BioProc : b[p] = x})
                           + Cardinality({n \in pinned : blockno[x] = n})
    <3>1. Cardinality({n \in pinned : blockno[x] = n}) = Pins(x)
      <4>1. CASE blockno[x] \in pinned
        <5>1. {n \in pinned : blockno[x] = n} = {blockno[x]}
          BY <4>1
        <5> QED
          BY <4>1, <5>1, FS_Singleton DEF Pins
      <4>2. CASE blockno[x] \notin pinned
        <5>1. {n \in pinned : blockno[x] = n} = {}
          BY <4>2
        <5> QED
          BY <4>2, <5>1, FS_EmptySet DEF Pins
      <4> QED
        BY <4>1, <4>2
    <3> QED
      BY <3>1 DEF Counts, Users
  <2>4. \A x \in Buf, p \in BioProc : b[p] = x => blockno[x] = want[p]
    BY BioAssumption DEF Refers
  <2> QED
    BY <2>1, <2>2, <2>3, <2>4 DEF RefcntExact
<1> QED
  BY <1>1, BioInvariant, PTL

\* What bread returns is what was last stored in the block, although buffers are
\* recycled and written back at other times.
THEOREM ReadsLatestHolds == BioSpec => []ReadsLatest
<1>1. BioInv => ReadsLatest
  BY BioAssumption DEF BioInv, Contents, Locking, Refers, BioTypes, ReadsLatest
<1> QED
  BY <1>1, BioInvariant, PTL

=============================================================================
