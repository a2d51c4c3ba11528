-------------------------------- MODULE Log --------------------------------
(***************************************************************************)
(* The redo log of log.c over the buffer cache and a disk: begin_op,       *)
(* log_write and end_op of concurrent system calls, commit one disk write  *)
(* at a time, a crash at any point and the recovery of the next boot       *)
(* (which may crash again).  Sections under log.lock are one step.  A      *)
(* block reaches the disk whole.                                           *)
(***************************************************************************)
EXTENDS Naturals, Sequences, FiniteSets

CONSTANTS Proc,         \* processes that make file system calls
          Block,        \* home blocks of the file system
          Data, Zero,   \* contents of a block; Zero is what mkfs writes
          LOGSIZE,
          MAXOPBLOCKS,
          SbNlog,       \* sb.nlog: blocks of the on-disk log, header included
          OpWrites,     \* different blocks a system call really writes
          NONE

ASSUME LogAssumption ==
  /\ LOGSIZE \in Nat /\ MAXOPBLOCKS \in Nat /\ SbNlog \in Nat /\ OpWrites \in Nat
  /\ MAXOPBLOCKS <= LOGSIZE
  /\ Zero \in Data /\ NONE \notin Data /\ NONE \notin Block
  /\ IsFiniteSet(Proc)

VARIABLES
  home,         \* disk: contents of the home blocks
  logblk,       \* disk: contents of the data blocks of the log
  head,         \* disk: the header block, block numbers of a committed transaction
  cache,        \* b->data of the cached buffers, NONE where no buffer has the block
  pin,          \* references bpin holds on a block's buffer
  lh,           \* log.lh: block[0..n-1]
  outstanding,
  committing,
  tail,         \* local of write_log and install_trans
  boot,         \* "read", "install": in recover_from_log; "up": initlog has returned
  pc,           \* where a process is in its system call
  held,         \* the block whose buffer a process has locked
  writes        \* the blocks the process's system call has written

vars == <<home, logblk, head, cache, pin, lh, outstanding, committing, tail, boot,
          pc, held, writes>>
disk == <<home, logblk, head>>
call == <<pc, held, writes>>

Listed(b, header) == \E i \in 1..Len(header) : header[i] = b

\* sleep(&log) ends for everyone: they go around begin_op's loop again.
wakeup(pcs) == [q \in Proc |-> IF pcs[q] = "sleep" THEN "begin" ELSE pcs[q]]

\* bread: the cached contents of the block, or else those on disk.
bread(b) == IF cache[b] = NONE THEN home[b] ELSE cache[b]

Init ==
  /\ home = [b \in Block |-> Zero]
  /\ logblk = [i \in 1..LOGSIZE |-> Zero]
  /\ head = << >>
  /\ cache = [b \in Block |-> NONE]
  /\ pin = [b \in Block |-> 0]
  /\ lh = << >>
  /\ outstanding = 0
  /\ committing = FALSE
  /\ tail = 0
  /\ boot = "read"
  /\ pc = [q \in Proc |-> "idle"]
  /\ held = [q \in Proc |-> NONE]
  /\ writes = [q \in Proc |-> {}]

-----------------------------------------------------------------------------
(* A system call *)

\* A process enters begin_op.
Call(q) ==
  /\ boot = "up"
  /\ pc[q] = "idle"
  /\ pc' = [pc EXCEPT ![q] = "begin"]
  /\ UNCHANGED <<disk, cache, pin, lh, outstanding, committing, tail, boot, held, writes>>

\* Mutant: begin_op does not count the calls in progress.
WaitForOwnSpace == committing \/ Len(lh) + MAXOPBLOCKS > LOGSIZE

\* begin_op's tests: a commit is under way, or this call might exhaust the log.
MustWait == committing \/ Len(lh) + (outstanding + 1) * MAXOPBLOCKS > LOGSIZE

\* The loop of begin_op: sleep, or reserve space and go on.
begin_op(q) ==
  /\ pc[q] = "begin"
  /\ IF MustWait
       THEN /\ pc' = [pc EXCEPT ![q] = "sleep"]
            /\ UNCHANGED <<outstanding, writes>>
       ELSE /\ pc' = [pc EXCEPT ![q] = "op"]
            /\ outstanding' = outstanding + 1
            /\ writes' = [writes EXCEPT ![q] = {}]
  /\ UNCHANGED <<disk, cache, pin, lh, committing, tail, boot, held>>

\* The call reads a block and keeps its buffer locked.  OpWrites bounds the
\* blocks it will write.
Bread(q, b) ==
  /\ pc[q] = "op"
  /\ held[q] = NONE
  /\ \A r \in Proc : held[r] # b
  /\ Cardinality(writes[q] \union {b}) <= OpWrites
  /\ held' = [held EXCEPT ![q] = b]
  /\ cache' = [cache EXCEPT ![b] = bread(b)]
  /\ UNCHANGED <<disk, pin, lh, outstanding, committing, tail, boot, pc, writes>>

\* The call is done with a buffer it has only read.
brelse(q) ==
  /\ pc[q] = "op"
  /\ held[q] # NONE
  /\ held' = [held EXCEPT ![q] = NONE]
  /\ UNCHANGED <<disk, cache, pin, lh, outstanding, committing, tail, boot, pc, writes>>

\* The call modifies the buffer, log_write records the block and brelse unlocks
\* the buffer; or log_write panics and the buffer stays locked.
log_write(q, v) ==
  /\ pc[q] = "op"
  /\ held[q] # NONE
  /\ LET b == held[q]
         full == Len(lh) >= LOGSIZE \/ Len(lh) >= SbNlog - 1
         new == ~full /\ ~Listed(b, lh)
     IN  /\ cache' = [cache EXCEPT ![b] = v]
         /\ lh' = IF new THEN Append(lh, b) ELSE lh
         /\ pin' = IF new THEN [pin EXCEPT ![b] = @ + 1] ELSE pin
         /\ pc' = IF full THEN [pc EXCEPT ![q] = "panic"] ELSE pc
         /\ held' = IF full THEN held ELSE [held EXCEPT ![q] = NONE]
         /\ writes' = [writes EXCEPT ![q] = @ \union {b}]
  /\ UNCHANGED <<disk, outstanding, committing, tail, boot>>

\* end_op: the last call out commits, any other wakes those who wait for space.
end_op(q) ==
  /\ pc[q] = "op"
  /\ held[q] = NONE
  /\ outstanding' = outstanding - 1
  /\ writes' = [writes EXCEPT ![q] = {}]
  /\ IF committing
       THEN pc' = [pc EXCEPT ![q] = "panic"] /\ UNCHANGED <<committing, tail>>
       ELSE IF outstanding' = 0
         THEN /\ committing' = TRUE
              /\ tail' = 0
              /\ pc' = [pc EXCEPT ![q] = IF lh = << >> THEN "committed" ELSE "write_log"]
         ELSE /\ pc' = wakeup([pc EXCEPT ![q] = "idle"])
              /\ UNCHANGED <<committing, tail>>
  /\ UNCHANGED <<disk, cache, pin, lh, boot, held>>

-----------------------------------------------------------------------------
(* commit, run by the process that called end_op last *)

\* write_log copies one block from the cache to the log.
write_log(q) ==
  /\ pc[q] = "write_log"
  /\ tail < Len(lh)
  /\ logblk' = [logblk EXCEPT ![tail + 1] = bread(lh[tail + 1])]
  /\ cache' = [cache EXCEPT ![lh[tail + 1]] = bread(lh[tail + 1])]
  /\ tail' = tail + 1
  /\ UNCHANGED <<home, head, pin, lh, outstanding, committing, boot, call>>

\* Mutant: the header goes to disk before the blocks.
HeadBeforeBlocks(q) ==
  /\ pc[q] = "write_log"
  /\ head' = lh
  /\ tail' = IF tail = Len(lh) THEN 0 ELSE tail
  /\ pc' = IF tail = Len(lh) THEN [pc EXCEPT ![q] = "install"] ELSE pc
  /\ UNCHANGED <<home, logblk, cache, pin, lh, outstanding, committing, boot, held, writes>>

\* write_head: the transaction is committed once the header is on disk.
write_head(q) ==
  /\ pc[q] = "write_log"
  /\ tail = Len(lh)
  /\ head' = lh
  /\ tail' = 0
  /\ pc' = [pc EXCEPT ![q] = "install"]
  /\ UNCHANGED <<home, logblk, cache, pin, lh, outstanding, committing, boot, held, writes>>

\* The body of install_trans's loop: one block goes home through its buffer.
InstallBlock ==
  /\ tail < Len(lh)
  /\ home' = [home EXCEPT ![lh[tail + 1]] = logblk[tail + 1]]
  /\ cache' = [cache EXCEPT ![lh[tail + 1]] = logblk[tail + 1]]
  /\ tail' = tail + 1

\* install_trans(0) also drops log_write's reference on the buffer.
install_trans(q) ==
  /\ pc[q] = "install"
  /\ InstallBlock
  /\ pin' = [pin EXCEPT ![lh[tail + 1]] = @ - 1]
  /\ UNCHANGED <<logblk, head, lh, outstanding, committing, boot, call>>

\* commit ends: log.lh.n = 0 and write_head erases the transaction.
EraseLog(q) ==
  /\ pc[q] = "install"
  /\ tail = Len(lh)
  /\ lh' = << >>
  /\ head' = << >>
  /\ tail' = 0
  /\ pc' = [pc EXCEPT ![q] = "committed"]
  /\ UNCHANGED <<home, logblk, cache, pin, outstanding, committing, boot, held, writes>>

\* Mutant: the waiting calls are not woken.
EndCommitQuietly(q) ==
  /\ pc[q] = "committed"
  /\ committing' = FALSE
  /\ pc' = [pc EXCEPT ![q] = "idle"]
  /\ UNCHANGED <<disk, cache, pin, lh, outstanding, tail, boot, held, writes>>

\* The rest of end_op, after commit: let the waiting calls in.
EndCommit(q) ==
  /\ pc[q] = "committed"
  /\ committing' = FALSE
  /\ pc' = wakeup([pc EXCEPT ![q] = "idle"])
  /\ UNCHANGED <<disk, cache, pin, lh, outstanding, tail, boot, held, writes>>

-----------------------------------------------------------------------------
(* The cache, crashes and recovery *)

\* bget recycles a buffer nobody refers to.
Recycle(b) ==
  /\ cache[b] # NONE
  /\ pin[b] = 0
  /\ \A q \in Proc : held[q] # b
  /\ cache' = [cache EXCEPT ![b] = NONE]
  /\ UNCHANGED <<disk, pin, lh, outstanding, committing, tail, boot, call>>

\* The machine stops and boots again: memory is lost.
Crash ==
  /\ cache' = [b \in Block |-> NONE]
  /\ pin' = [b \in Block |-> 0]
  /\ lh' = << >>
  /\ outstanding' = 0
  /\ committing' = FALSE
  /\ tail' = 0
  /\ boot' = "read"
  /\ pc' = [q \in Proc |-> "idle"]
  /\ held' = [q \in Proc |-> NONE]
  /\ writes' = [q \in Proc |-> {}]
  /\ UNCHANGED disk

\* initlog, recover_from_log.
read_head ==
  /\ boot = "read"
  /\ lh' = head
  /\ tail' = 0
  /\ boot' = "install"
  /\ UNCHANGED <<disk, cache, pin, outstanding, committing, call>>

\* install_trans(1).
RecoverBlock ==
  /\ boot = "install"
  /\ InstallBlock
  /\ UNCHANGED <<logblk, head, pin, lh, outstanding, committing, boot, call>>

\* recover_from_log clears the log and initlog returns.
recover_from_log ==
  /\ boot = "install"
  /\ tail = Len(lh)
  /\ lh' = << >>
  /\ head' = << >>
  /\ tail' = 0
  /\ boot' = "up"
  /\ UNCHANGED <<home, logblk, cache, pin, outstanding, committing, call>>

-----------------------------------------------------------------------------
Commit(q) == write_log(q) \/ write_head(q) \/ install_trans(q) \/ EraseLog(q) \/ EndCommit(q)

Recovery == read_head \/ RecoverBlock \/ recover_from_log

Next ==
  \/ \E q \in Proc :
       \/ Call(q) \/ begin_op(q) \/ brelse(q) \/ end_op(q) \/ Commit(q)
       \/ \E b \in Block : Bread(q, b)
       \/ \E v \in Data : log_write(q, v)
  \/ \E b \in Block : Recycle(b)
  \/ Crash
  \/ Recovery

Spec == Init /\ [][Next]_vars

\* Scheduled processes go on, and a system call makes finitely many reads.
FairSpec ==
  /\ Spec
  /\ WF_vars(Recovery)
  /\ \A q \in Proc : WF_vars(begin_op(q)) /\ WF_vars(brelse(q)) /\ WF_vars(Commit(q)) /\ SF_vars(end_op(q))

-----------------------------------------------------------------------------
(* Properties *)

\* The process in commit, and the calls in progress.
Committer == {q \in Proc : pc[q] \in {"write_log", "install", "committed"}}
Ops == {q \in Proc : pc[q] \in {"op", "panic"}}

\* The blocks of log.lh that install_trans has yet to copy home.
Installed == IF \E q \in Proc : pc[q] = "install" THEN tail ELSE 0
Pending(b) == \E i \in (Installed + 1)..Len(lh) : lh[i] = b

PcStates == {"idle", "begin", "sleep", "op", "write_log", "install", "committed", "panic"}

\* Types of the log's state: log.lh fits in the header, tail in log.lh.
TypeOK ==
  /\ home \in [Block -> Data]
  /\ logblk \in [1..LOGSIZE -> Data]
  /\ head \in Seq(Block) /\ Len(head) <= LOGSIZE
  /\ cache \in [Block -> Data \union {NONE}]
  /\ pin \in [Block -> Nat]
  /\ lh \in Seq(Block) /\ Len(lh) <= LOGSIZE
  /\ outstanding \in Nat
  /\ committing \in BOOLEAN
  /\ tail \in 0..Len(lh)
  /\ boot \in {"read", "install", "up"}
  /\ pc \in [Proc -> PcStates]
  /\ held \in [Proc -> Block \union {NONE}]
  /\ writes \in [Proc -> SUBSET Block]

\* The contents a boot would recover now: the home blocks, under the blocks of
\* the transaction in the on-disk header (recover_from_log).
Durable == [b \in Block |->
  IF Listed(b, head) THEN logblk[CHOOSE i \in 1..Len(head) : head[i] = b] ELSE home[b]]

\* The contents bread returns once the file system is up.
View == IF boot = "up" THEN [b \in Block |-> bread(b)] ELSE Durable

AD == INSTANCE AtomicDisk WITH disk <- Durable, view <- View, active <- outstanding

\* The log implements AtomicDisk: a crash at any step of begin_op, log_write,
\* end_op, commit or recovery leaves the writes of whole system calls only.
ImplementsAtomicDisk == AD!Spec

\* Every call fits in the log: log_write never panics ("too big a
\* transaction"), end_op never finds a commit under way ("log.committing").
NoPanic == \A q \in Proc : pc[q] # "panic"

\* log.outstanding counts the calls in progress, log.committing is set exactly
\* while one process is in commit, and then no call is in progress (end_op).
CommitAlone ==
  /\ committing <=> Committer # {}
  /\ \A q, r \in Committer : q = r
  /\ outstanding = Cardinality(Ops)
  /\ committing => outstanding = 0

\* With no call and no commit in progress, everything written is on the home
\* blocks and the log is empty: end_op of the last call has made it durable.
QuietIsDurable ==
  boot = "up" /\ outstanding = 0 /\ ~committing =>
    lh = << >> /\ head = << >> /\ \A b \in Block : bread(b) = home[b]

\* A buffer is pinned once from its log_write to its install_trans, and no
\* longer: pins do not pile up until bget finds no buffer.
PinsBalanced == boot = "up" => \A b \in Block : pin[b] = IF Pending(b) THEN 1 ELSE 0

\* A process asleep in begin_op waits for a call or a commit whose end_op will
\* wake it: no wakeup is lost.
SleeperHasWaker == (\E q \in Proc : pc[q] = "sleep") => committing \/ outstanding > 0

\* A process asleep in begin_op is woken.
SleepersWake == \A q \in Proc : pc[q] = "sleep" ~> pc[q] # "sleep"

-----------------------------------------------------------------------------
(* The inductive invariant *)

\* A header names no block twice (log absorption).
Distinct(header) == \A i, j \in 1..Len(header) : header[i] = header[j] => i = j

\* Until initlog returns nothing else runs, and what is cached is clean.
BootInv ==
  boot # "up" =>
    /\ outstanding = 0 /\ ~committing
    /\ \A q \in Proc : pc[q] = "idle" /\ held[q] = NONE
    /\ \A b \in Block : pin[b] = 0 /\ bread(b) = home[b]
    /\ boot = "install" => lh = head /\ \A i \in 1..tail : home[lh[i]] = logblk[i]

\* What is pinned stays cached, what is not is clean (but for the buffer of a
\* log_write that has panicked).
CacheInv ==
  /\ \A q \in Proc : held[q] # NONE => pc[q] \in {"op", "panic"}
  /\ boot = "up" => \A b \in Block :
       IF Pending(b) THEN cache[b] # NONE
                     ELSE bread(b) = home[b] \/ \E q \in Proc : pc[q] = "panic" /\ held[q] = b

\* How far commit has got.
CommitInv ==
  boot = "up" =>
    /\ (\A q \in Proc : pc[q] # "install") => head = << >>
    /\ \A q \in Proc :
         /\ pc[q] = "write_log" => \A i \in 1..tail : logblk[i] = bread(lh[i])
         /\ pc[q] = "install" => head = lh /\ \A i \in 1..Len(lh) : logblk[i] = bread(lh[i])
         /\ pc[q] = "committed" => lh = << >>
    /\ outstanding = 0 /\ ~committing => lh = << >>

LogInv ==
  /\ TypeOK
  /\ CommitAlone
  /\ PinsBalanced
  /\ SleeperHasWaker
  /\ Distinct(lh) /\ Distinct(head)
  /\ BootInv
  /\ CacheInv
  /\ CommitInv
=============================================================================
