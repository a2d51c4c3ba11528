-------------------------------- MODULE Bio ---------------------------------
(***************************************************************************)
(* The buffer cache (bio.c) with the sleep-locks of its buffers            *)
(* (sleeplock.c), used as log.c uses it: a buffer that is modified is      *)
(* pinned until its block is written.  A section under bcache.lock or      *)
(* under the spinlock of a sleep-lock is one step.                         *)
(***************************************************************************)
EXTENDS Naturals, Sequences, FiniteSets

CONSTANTS BioProc, Buf, DiskBlock, Data,
          MaxPinned,   \* blocks pinned at a time: the size of the log
          NIL          \* no process, no buffer, no block

ASSUME BioAssumption ==
  /\ NIL \notin BioProc \union Buf \union DiskBlock
  /\ IsFiniteSet(BioProc)

VARIABLES
  blockno, valid, refcnt, data,   \* fields of struct buf
  holder,    \* process that holds b->lock, or NIL
  lru,       \* the list: from most to least recently used
  disk,
  pinned,    \* blocks that the log has pinned
  latest,    \* history: what was last stored in each block by a holder
  bpc, want, b

bioVars == <<blockno, valid, refcnt, data, holder, lru, disk, pinned, latest, bpc, want, b>>

BioInit ==
  /\ blockno = [x \in Buf |-> NIL]
  /\ valid = [x \in Buf |-> FALSE]
  /\ refcnt = [x \in Buf |-> 0]
  /\ data = [x \in Buf |-> NIL]
  /\ holder = [x \in Buf |-> NIL]
  /\ lru \in [1..Cardinality(Buf) -> Buf]
  /\ \A k, l \in DOMAIN lru : lru[k] = lru[l] => k = l
  /\ disk \in [DiskBlock -> Data]
  /\ pinned = {}
  /\ latest = disk
  /\ bpc = [p \in BioProc |-> "idle"]
  /\ want = [p \in BioProc |-> NIL]
  /\ b = [p \in BioProc |-> NIL]

Goto(p, where) == bpc' = [bpc EXCEPT ![p] = where]

Cached(n) == {x \in Buf : blockno[x] = n}

\* The least recently used buffer that nobody refers to.
Unused(x) ==
  \E k \in DOMAIN lru :
    /\ lru[k] = x /\ refcnt[x] = 0
    /\ \A l \in (k + 1)..Len(lru) : refcnt[lru[l]] > 0

-----------------------------------------------------------------------------
\* Mutant of bget: a hit is not counted.
BgetUncounted(p, n) ==
  /\ bpc[p] = "idle"
  /\ \E x \in Cached(n) : b' = [b EXCEPT ![p] = x]
  /\ want' = [want EXCEPT ![p] = n]
  /\ Goto(p, "acquire")
  /\ UNCHANGED <<blockno, valid, refcnt, data, holder, lru, disk, pinned, latest>>

\* bget: the block is cached.
bget(p, n) ==
  /\ bpc[p] = "idle"
  /\ \E x \in Cached(n) :
       /\ refcnt' = [refcnt EXCEPT ![x] = @ + 1]
       /\ b' = [b EXCEPT ![p] = x]
  /\ want' = [want EXCEPT ![p] = n]
  /\ Goto(p, "acquire")
  /\ UNCHANGED <<blockno, valid, data, holder, lru, disk, pinned, latest>>

\* Mutant of BgetRecycles: b->valid survives.
RecyclesValid(p, n) ==
  /\ bpc[p] = "idle"
  /\ Cached(n) = {}
  /\ \E x \in Buf :
       /\ Unused(x)
       /\ blockno' = [blockno EXCEPT ![x] = n]
       /\ refcnt' = [refcnt EXCEPT ![x] = 1]
       /\ b' = [b EXCEPT ![p] = x]
  /\ want' = [want EXCEPT ![p] = n]
  /\ Goto(p, "acquire")
  /\ UNCHANGED <<valid, data, holder, lru, disk, pinned, latest>>

\* bget: the block is not cached and a buffer is recycled.
BgetRecycles(p, n) ==
  /\ bpc[p] = "idle"
  /\ Cached(n) = {}
  /\ \E x \in Buf :
       /\ Unused(x)
       /\ blockno' = [blockno EXCEPT ![x] = n]
       /\ valid' = [valid EXCEPT ![x] = FALSE]
       /\ refcnt' = [refcnt EXCEPT ![x] = 1]
       /\ b' = [b EXCEPT ![p] = x]
  /\ want' = [want EXCEPT ![p] = n]
  /\ Goto(p, "acquire")
  /\ UNCHANGED <<data, holder, lru, disk, pinned, latest>>

\* bget: every buffer is in use.
BgetPanics(p, n) ==
  /\ bpc[p] = "idle"
  /\ Cached(n) = {} /\ \A x \in Buf : refcnt[x] > 0
  /\ Goto(p, "panic")
  /\ UNCHANGED <<blockno, valid, refcnt, data, holder, lru, disk, pinned, latest, want, b>>

\* acquiresleep: take the lock or sleep on it.
acquiresleep(p) ==
  /\ bpc[p] = "acquire"
  /\ IF holder[b[p]] = NIL
       THEN holder' = [holder EXCEPT ![b[p]] = p] /\ Goto(p, "read")
       ELSE UNCHANGED holder /\ Goto(p, "asleep")
  /\ UNCHANGED <<blockno, valid, refcnt, data, lru, disk, pinned, latest, want, b>>

\* The rest of bread: the block is read from disk unless the buffer is valid.
bread(p) ==
  /\ bpc[p] = "read"
  /\ IF valid[b[p]]
       THEN UNCHANGED <<data, valid>>
       ELSE /\ data' = [data EXCEPT ![b[p]] = disk[blockno[b[p]]]]
            /\ valid' = [valid EXCEPT ![b[p]] = TRUE]
  /\ Goto(p, "locked")
  /\ UNCHANGED <<blockno, refcnt, holder, lru, disk, pinned, latest, want, b>>

\* The holder changes the contents and calls log_write, which pins the buffer
\* unless its block is in the log already.
bpin(p, d) ==
  /\ bpc[p] = "locked"
  /\ data' = [data EXCEPT ![b[p]] = d]
  /\ latest' = [latest EXCEPT ![want[p]] = d]
  /\ \/ /\ want[p] \in pinned
        /\ UNCHANGED <<refcnt, pinned>>
     \/ /\ want[p] \notin pinned /\ Cardinality(pinned) < MaxPinned
        /\ refcnt' = [refcnt EXCEPT ![b[p]] = @ + 1]
        /\ pinned' = pinned \cup {want[p]}
  /\ UNCHANGED <<blockno, valid, holder, lru, disk, bpc, want, b>>

\* install_trans: the holder writes the block and unpins the buffer.
bunpin(p) ==
  /\ bpc[p] = "locked"
  /\ want[p] \in pinned
  /\ disk' = [disk EXCEPT ![blockno[b[p]]] = data[b[p]]]
  /\ refcnt' = [refcnt EXCEPT ![b[p]] = @ - 1]
  /\ pinned' = pinned \ {want[p]}
  /\ UNCHANGED <<blockno, valid, data, holder, lru, latest, bpc, want, b>>

\* brelse, first part: releasesleep wakes everyone who sleeps on the lock.
releasesleep(p) ==
  /\ bpc[p] = "locked"
  /\ holder' = [holder EXCEPT ![b[p]] = NIL]
  /\ bpc' = [q \in BioProc |-> IF q = p THEN "release"
                           ELSE IF bpc[q] = "asleep" /\ b[q] = b[p] THEN "acquire"
                           ELSE bpc[q]]
  /\ UNCHANGED <<blockno, valid, refcnt, data, lru, disk, pinned, latest, want, b>>

\* brelse, second part: the reference is dropped under bcache.lock; a buffer
\* nobody refers to becomes the most recently used.
brelse(p) ==
  /\ bpc[p] = "release"
  /\ refcnt' = [refcnt EXCEPT ![b[p]] = @ - 1]
  /\ lru' = IF refcnt'[b[p]] = 0
              THEN <<b[p]>> \o SelectSeq(lru, LAMBDA x : x # b[p])
              ELSE lru
  /\ b' = [b EXCEPT ![p] = NIL]
  /\ want' = [want EXCEPT ![p] = NIL]
  /\ Goto(p, "idle")
  /\ UNCHANGED <<blockno, valid, data, holder, disk, pinned, latest>>

-----------------------------------------------------------------------------
BioNext ==
  \E p \in BioProc :
    \/ acquiresleep(p) \/ bread(p) \/ bunpin(p) \/ releasesleep(p) \/ brelse(p)
    \/ \E n \in DiskBlock : bget(p, n) \/ BgetRecycles(p, n) \/ BgetPanics(p, n)
    \/ \E d \in Data : bpin(p, d)

BioSpec == BioInit /\ [][BioNext]_bioVars

-----------------------------------------------------------------------------
\* Two processes that want the same block get the same buffer, so its
\* sleep-lock orders them: no block is cached twice.
OneBufferPerBlock ==
  \A x, y \in Buf : x # y /\ blockno[x] = blockno[y] => blockno[x] = NIL

\* A process asleep in acquiresleep sleeps on a lock that another one holds: the
\* wakeup of releasesleep is never lost.  (The woken process may find the lock
\* taken again: nothing queues the waiters.)
SleeperHasHolder ==
  \A p \in BioProc : bpc[p] = "asleep" => holder[b[p]] \notin {NIL, p}

\* A buffer keeps its block as long as anybody waits for it, holds it or has
\* pinned it, since refcnt is exact though bget drops bcache.lock before it
\* sleeps; no block is in two buffers; and whoever sleeps in acquiresleep sleeps
\* on a lock that another process holds.
RefcntExact ==
  /\ OneBufferPerBlock /\ SleeperHasHolder
  /\ \A x \in Buf :
       /\ refcnt[x] = Cardinality({p \in BioProc : b[p] = x})
                      + Cardinality({n \in pinned : blockno[x] = n})
       /\ \A p \in BioProc : b[p] = x => blockno[x] = want[p]

\* Whoever holds a buffer sees what the last holder stored in the block, from
\* whichever buffer, and across recycling; and holds its lock alone.
ReadsLatest ==
  \A p \in BioProc : bpc[p] = "locked" =>
    valid[b[p]] /\ data[b[p]] = latest[want[p]] /\ holder[b[p]] = p

=============================================================================
