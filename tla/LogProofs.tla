----------------------------- MODULE LogProofs ------------------------------
(***************************************************************************)
(* Theorems about the redo log: LogInv is inductive, no call overflows the *)
(* log, and the log implements AtomicDisk for any number of processes and  *)
(* blocks and any log size.                                                *)
(***************************************************************************)
EXTENDS Log, FiniteSetTheorems, TLAPS

\* Leaves are tried with Zenon first, which is quick to give up.
USE ZenonT(3), SMTT(30)

-----------------------------------------------------------------------------
(* Who is doing what *)

\* log.outstanding is zero exactly when no call is in progress.
LEMMA OpsCounted ==
  ASSUME LogInv
  PROVE  /\ IsFiniteSet(Ops)
         /\ outstanding = Cardinality(Ops)
         /\ outstanding = 0 <=> Ops = {}
<1>1. IsFiniteSet(Ops)
  BY LogAssumption, FS_Subset, Ops \subseteq Proc DEF Ops
<1>2. outstanding = Cardinality(Ops)
  BY DEF LogInv, CommitAlone
<1>. QED
  BY <1>1, <1>2, FS_EmptySet

\* A process in a system call runs on a kernel that is up.
LEMMA UpAndRunning ==
  ASSUME LogInv, NEW q \in Proc, pc[q] # "idle" \/ held[q] # NONE
  PROVE  boot = "up"
  BY DEF LogInv, BootInv

\* The process in commit is alone: no call is in progress (end_op).
LEMMA CommitterAlone ==
  ASSUME LogInv, NEW q \in Proc, pc[q] \in {"write_log", "install", "committed"}
  PROVE  /\ boot = "up" /\ committing /\ outstanding = 0
         /\ \A r \in Proc : pc[r] \in {"write_log", "install", "committed"} => r = q
         /\ \A r \in Proc : pc[r] \notin {"op", "panic"} /\ held[r] = NONE
<1>1. boot = "up"
  BY UpAndRunning
<1>2. q \in Committer
  BY DEF Committer
<1>3. committing /\ outstanding = 0 /\ \A r \in Committer : r = q
  BY <1>2 DEF LogInv, CommitAlone
<1>4. Ops = {}
  BY <1>3, OpsCounted
<1>5. \A r \in Proc : pc[r] \notin {"op", "panic"}
  BY <1>4 DEF Ops
<1>6. \A r \in Proc : held[r] = NONE
  BY <1>5 DEF LogInv, CacheInv
<1>. QED
  BY <1>1, <1>3, <1>5, <1>6 DEF Committer

\* While a call is in progress no process is in commit.
LEMMA CallerAlone ==
  ASSUME LogInv, NEW q \in Proc, pc[q] \in {"op", "panic"}
  PROVE  /\ boot = "up" /\ outstanding > 0 /\ ~committing
         /\ \A r \in Proc : pc[r] \notin {"write_log", "install", "committed"}
         /\ Installed = 0
<1>1. boot = "up"
  BY UpAndRunning
<1>2. outstanding # 0
  BY OpsCounted DEF Ops
<1>3. ~committing /\ Committer = {} /\ outstanding \in Nat
  BY <1>2 DEF LogInv, CommitAlone, TypeOK
<1>. QED
  BY <1>1, <1>2, <1>3 DEF Committer, Installed

-----------------------------------------------------------------------------
(* The initial state *)

\* The state of a fresh disk image, before initlog, satisfies LogInv.
LEMMA InitInv == Init => LogInv
<1>. SUFFICES ASSUME Init PROVE LogInv
  OBVIOUS
<1>. USE LogAssumption DEF Init
<1>1. TypeOK
  <2>1. << >> \in Seq(Block) /\ Len(<< >>) = 0
    OBVIOUS
  <2>2. pin \in [Block -> Nat] /\ writes \in [Proc -> SUBSET Block]
    OBVIOUS
  <2>3. tail \in 0..Len(lh) /\ Len(lh) <= LOGSIZE
    BY <2>1
  <2>. QED
    BY <2>1, <2>2, <2>3 DEF TypeOK, PcStates
<1>2. Ops = {} /\ Committer = {}
  BY DEF Ops, Committer
<1>3. CommitAlone
  BY <1>2, FS_EmptySet DEF CommitAlone
<1>4. PinsBalanced /\ SleeperHasWaker /\ Distinct(lh) /\ Distinct(head) /\ CacheInv /\ CommitInv
  BY DEF PinsBalanced, SleeperHasWaker, Distinct, CacheInv, CommitInv
<1>5. BootInv
  BY DEF BootInv, bread
<1>. QED
  BY <1>1, <1>3, <1>4, <1>5 DEF LogInv

-----------------------------------------------------------------------------
(* The steps of a system call *)

\* A step that changes neither the disk nor the log nor what bread returns,
\* and neither begins nor ends a commit.
LEMMA QuietStep ==
  ASSUME LogInv, boot = "up", TypeOK', CommitAlone', SleeperHasWaker',
         UNCHANGED <<disk, pin, lh, tail, boot>>,
         \A b \in Block : bread(b)' = bread(b) /\ (cache[b] # NONE => cache'[b] # NONE),
         \A r \in Proc : pc'[r] = pc[r]
            \/ {pc[r], pc'[r]} \cap {"write_log", "install", "committed"} = {},
         \A r \in Proc : /\ held'[r] # NONE => pc'[r] \in {"op", "panic"}
                         /\ pc[r] = "panic" => pc'[r] = "panic" /\ held'[r] = held[r],
         outstanding' = 0 /\ ~committing' => outstanding = 0 /\ ~committing
  PROVE  LogInv'
<1>1. \A r \in Proc, st \in {"write_log", "install", "committed"} : pc'[r] = st <=> pc[r] = st
  OBVIOUS
<1>2. Installed' = Installed
  BY <1>1 DEF Installed
<1>3. \A b \in Block : Pending(b)' <=> Pending(b)
  BY <1>2 DEF Pending
<1>4. PinsBalanced' /\ CacheInv'
  <2>1. PinsBalanced'
    BY <1>3 DEF LogInv, PinsBalanced
  <2>2. ASSUME NEW b \in Block
        PROVE  IF Pending(b)' THEN cache'[b] # NONE
               ELSE bread(b)' = home'[b] \/ \E r \in Proc : pc'[r] = "panic" /\ held'[r] = b
    <3>1. CASE Pending(b)
      BY <1>3, <3>1 DEF LogInv, CacheInv
    <3>2. CASE ~Pending(b) /\ bread(b) = home[b]
      BY <1>3, <3>2 DEF disk
    <3>3. CASE ~Pending(b) /\ \E r \in Proc : pc[r] = "panic" /\ held[r] = b
      BY <1>3, <3>3
    <3>. QED
      BY <3>1, <3>2, <3>3 DEF LogInv, CacheInv
  <2>3. \A r \in Proc : held'[r] # NONE => pc'[r] \in {"op", "panic"}
    OBVIOUS
  <2>. QED
    BY <2>1, <2>2, <2>3, Zenon DEF CacheInv
<1>5. \A i \in 1..Len(lh) : lh[i] \in Block
  BY DEF LogInv, TypeOK
<1>6. CommitInv'
  <2>1. \A i \in 1..Len(lh) : bread(lh[i])' = bread(lh[i])
    BY <1>5
  <2>2. \A i \in 1..tail : i \in 1..Len(lh)
    BY DEF LogInv, TypeOK
  <2>. QED
    BY <1>1, <2>1, <2>2 DEF LogInv, CommitInv, disk
<1>7. Distinct(lh)' /\ Distinct(head)' /\ BootInv'
  BY DEF LogInv, Distinct, BootInv, disk
<1>. QED
  BY <1>4, <1>6, <1>7 DEF LogInv

\* A step in which no call begins or ends and no commit does.
LEMMA SameCounts ==
  ASSUME LogInv, UNCHANGED <<outstanding, committing>>,
         \A r \in Proc : pc'[r] = pc[r] \/ {pc[r], pc'[r]} \subseteq {"idle", "begin", "sleep"}
  PROVE  CommitAlone'
<1>1. Ops' = Ops /\ Committer' = Committer
  BY DEF Ops, Committer
<1>. QED
  BY <1>1 DEF LogInv, CommitAlone

\* Entering begin_op keeps LogInv.
LEMMA CallStep == ASSUME LogInv, NEW q \in Proc, Call(q) PROVE LogInv'
<1>. USE DEF Call
<1>1. TypeOK'
  BY DEF LogInv, TypeOK, PcStates, disk
<1>2. pc' = [pc EXCEPT ![q] = "begin"] /\ pc \in [Proc -> PcStates]
  BY DEF LogInv, TypeOK
<1>3. CommitAlone'
  BY <1>2, SameCounts
<1>4. SleeperHasWaker'
  BY <1>2 DEF LogInv, SleeperHasWaker
<1>5. \A b \in Block : bread(b)' = bread(b)
  BY DEF bread, disk
<1>6. \A r \in Proc : /\ held'[r] # NONE => pc'[r] \in {"op", "panic"}
                      /\ pc[r] = "panic" => pc'[r] = "panic" /\ held'[r] = held[r]
  BY <1>2 DEF LogInv, CacheInv
<1>. QED
  BY <1>1, <1>2, <1>3, <1>4, <1>5, <1>6, QuietStep

\* begin_op keeps LogInv, whether the process sleeps or goes on.
LEMMA BeginStep == ASSUME LogInv, NEW q \in Proc, begin_op(q) PROVE LogInv'
<1>1. boot = "up"
  BY UpAndRunning DEF begin_op
<1>2. outstanding \in Nat /\ pc \in [Proc -> PcStates]
  BY DEF LogInv, TypeOK
<1>3. CASE MustWait
  <2>1. UNCHANGED <<disk, cache, pin, lh, committing, tail, boot, held, outstanding, writes>>
        /\ pc[q] = "begin" /\ pc' = [pc EXCEPT ![q] = "sleep"]
    BY <1>3 DEF begin_op
  <2>2. TypeOK'
    BY <2>1 DEF LogInv, TypeOK, PcStates, disk
  <2>3. CommitAlone'
    BY <2>1, <1>2, SameCounts
  <2>4. committing \/ outstanding > 0
    <3>1. SUFFICES ASSUME ~committing, outstanding = 0 PROVE FALSE
      BY <1>2
    <3>2. lh = << >>
      BY <3>1, <1>1 DEF LogInv, CommitInv
    <3>3. Len(lh) + (outstanding + 1) * MAXOPBLOCKS = MAXOPBLOCKS
      BY <3>1, <3>2, LogAssumption
    <3>. QED
      BY <3>1, <3>3, <1>3, LogAssumption DEF MustWait
  <2>5. SleeperHasWaker'
    BY <2>1, <2>4 DEF SleeperHasWaker
  <2>6. \A b \in Block : bread(b)' = bread(b)
    BY <2>1 DEF bread, disk
  <2>7. \A r \in Proc : /\ held'[r] # NONE => pc'[r] \in {"op", "panic"}
                        /\ pc[r] = "panic" => pc'[r] = "panic" /\ held'[r] = held[r]
    BY <2>1, <1>2 DEF LogInv, CacheInv
  <2>. QED
    BY <1>1, <1>2, <2>1, <2>2, <2>3, <2>5, <2>6, <2>7, QuietStep
<1>4. CASE ~MustWait
  <2>1. UNCHANGED <<disk, cache, pin, lh, committing, tail, boot, held>>
        /\ pc[q] = "begin" /\ pc' = [pc EXCEPT ![q] = "op"]
        /\ outstanding' = outstanding + 1 /\ writes' = [writes EXCEPT ![q] = {}]
    BY <1>4 DEF begin_op
  <2>2. TypeOK'
    BY <2>1 DEF LogInv, TypeOK, PcStates, disk
  <2>3. CommitAlone'
    <3>1. Ops' = Ops \union {q} /\ q \notin Ops /\ Committer' = Committer
      BY <2>1, <1>2 DEF Ops, Committer
    <3>2. Cardinality(Ops') = Cardinality(Ops) + 1
      BY <3>1, OpsCounted, FS_AddElement
    <3>3. ~committing
      BY <1>4 DEF MustWait
    <3>. QED
      BY <2>1, <3>1, <3>2, <3>3 DEF LogInv, CommitAlone
  <2>4. SleeperHasWaker'
    BY <2>1, <1>2 DEF SleeperHasWaker
  <2>5. \A b \in Block : bread(b)' = bread(b)
    BY <2>1 DEF bread, disk
  <2>6. \A r \in Proc : /\ held'[r] # NONE => pc'[r] \in {"op", "panic"}
                        /\ pc[r] = "panic" => pc'[r] = "panic" /\ held'[r] = held[r]
    BY <2>1, <1>2 DEF LogInv, CacheInv
  <2>7. outstanding' # 0
    BY <2>1, <1>2
  <2>. QED
    BY <1>1, <1>2, <2>1, <2>2, <2>3, <2>4, <2>5, <2>6, <2>7, QuietStep
<1>. QED
  BY <1>3, <1>4

\* Reading a block keeps LogInv.
LEMMA BreadStep == ASSUME LogInv, NEW q \in Proc, NEW b \in Block, Bread(q, b) PROVE LogInv'
<1>. USE DEF Bread
<1>1. boot = "up"
  BY UpAndRunning
<1>2. TypeOK'
  <2>1. bread(b) \in Data
    BY DEF LogInv, TypeOK, bread
  <2>. QED
    BY <2>1 DEF LogInv, TypeOK, PcStates, disk
<1>3. CommitAlone'
  BY SameCounts
<1>4. SleeperHasWaker'
  BY DEF LogInv, SleeperHasWaker
<1>5. \A x \in Block : bread(x)' = bread(x) /\ (cache[x] # NONE => cache'[x] # NONE)
  BY LogAssumption DEF LogInv, TypeOK, bread, disk
<1>6. \A r \in Proc : /\ held'[r] # NONE => pc'[r] \in {"op", "panic"}
                      /\ pc[r] = "panic" => pc'[r] = "panic" /\ held'[r] = held[r]
  BY DEF LogInv, CacheInv, TypeOK, PcStates
<1>. QED
  BY <1>1, <1>2, <1>3, <1>4, <1>5, <1>6, QuietStep

\* Releasing a buffer keeps LogInv.
LEMMA BrelseStep == ASSUME LogInv, NEW q \in Proc, brelse(q) PROVE LogInv'
<1>. USE DEF brelse
<1>1. boot = "up"
  BY UpAndRunning
<1>2. TypeOK'
  BY DEF LogInv, TypeOK, PcStates, disk
<1>3. CommitAlone'
  BY SameCounts
<1>4. SleeperHasWaker'
  BY DEF LogInv, SleeperHasWaker
<1>5. \A x \in Block : bread(x)' = bread(x)
  BY DEF bread, disk
<1>6. \A r \in Proc : /\ held'[r] # NONE => pc'[r] \in {"op", "panic"}
                      /\ pc[r] = "panic" => pc'[r] = "panic" /\ held'[r] = held[r]
  BY DEF LogInv, CacheInv, TypeOK, PcStates
<1>. QED
  BY <1>1, <1>2, <1>3, <1>4, <1>5, <1>6, QuietStep

\* Recording a block in log.lh keeps LogInv: the block is pinned and cached.
LEMMA LogWriteStep ==
  ASSUME LogInv, NEW q \in Proc, NEW v \in Data, log_write(q, v)
  PROVE  LogInv'
<1>0. PICK b \in Block : b = held[q] /\ pc[q] = "op"
  BY DEF LogInv, TypeOK, log_write
<1>. DEFINE full == Len(lh) >= LOGSIZE \/ Len(lh) >= SbNlog - 1
            new == ~full /\ ~Listed(b, lh)
<1>1. /\ pc[q] = "op" /\ b = held[q]
      /\ cache' = [cache EXCEPT ![b] = v]
      /\ lh' = (IF new THEN Append(lh, b) ELSE lh)
      /\ pin' = (IF new THEN [pin EXCEPT ![b] = @ + 1] ELSE pin)
      /\ pc' = (IF full THEN [pc EXCEPT ![q] = "panic"] ELSE pc)
      /\ writes' = [writes EXCEPT ![q] = @ \union {b}]
      /\ held' = (IF full THEN held ELSE [held EXCEPT ![q] = NONE])
      /\ UNCHANGED <<home, logblk, head, outstanding, committing, tail, boot>>
  BY <1>0 DEF log_write, disk
<1>2. TypeOK /\ b \in Block
  BY DEF LogInv
<1>. HIDE DEF full, new
<1>3. /\ boot = "up" /\ outstanding > 0 /\ ~committing /\ Installed = 0
      /\ \A r \in Proc : pc[r] \notin {"write_log", "install", "committed"}
  BY <1>1, CallerAlone
<1>4. /\ lh \in Seq(Block) /\ Len(lh) \in Nat /\ lh' \in Seq(Block)
      /\ Len(lh') = IF new THEN Len(lh) + 1 ELSE Len(lh)
      /\ \A i \in 1..Len(lh) : lh'[i] = lh[i]
      /\ new => lh'[Len(lh) + 1] = b
  BY <1>1, <1>2 DEF TypeOK
<1>5. TypeOK'
  <2>1. Len(lh') <= LOGSIZE
    BY <1>2, <1>4, LogAssumption DEF TypeOK, new, full
  <2>2. tail' \in 0..Len(lh')
    BY <1>1, <1>2, <1>4 DEF TypeOK
  <2>3. pc' \in [Proc -> PcStates]
    BY <1>1, <1>2 DEF TypeOK, PcStates
  <2>4. pin' \in [Block -> Nat]
    BY <1>1, <1>2 DEF TypeOK
  <2>5. held' \in [Proc -> Block \union {NONE}] /\ writes' \in [Proc -> SUBSET Block] /\ cache' \in [Block -> Data \union {NONE}]
    BY <1>1, <1>2 DEF TypeOK
  <2>. QED
    BY <1>1, <1>2, <1>4, <2>1, <2>2, <2>3, <2>4, <2>5 DEF TypeOK
<1>6. \A r \in Proc : pc'[r] = pc[r] \/ (pc[r] = "op" /\ pc'[r] = "panic")
  BY <1>1, <1>2 DEF TypeOK
<1>7. CommitAlone'
  <2>1. Ops' = Ops /\ Committer' = Committer
    BY <1>6 DEF Ops, Committer
  <2>. QED
    BY <1>1, <2>1 DEF LogInv, CommitAlone
<1>8. SleeperHasWaker'
  BY <1>1, <1>3 DEF SleeperHasWaker
<1>9. Installed' = 0
  BY <1>3, <1>6 DEF Installed
<1>10. \A x \in Block : Pending(x)' <=> Pending(x) \/ (new /\ x = b)
  BY <1>3, <1>4, <1>9 DEF Pending
<1>11. Pending(b) <=> Listed(b, lh)
  BY <1>3, <1>4 DEF Pending, Listed
<1>12. PinsBalanced'
  BY <1>1, <1>2, <1>3, <1>10, <1>11 DEF LogInv, PinsBalanced, TypeOK, new
<1>13. CacheInv'
  <2>1. \A r \in Proc : held'[r] # NONE => pc'[r] \in {"op", "panic"}
    BY <1>1, <1>2, <1>6 DEF LogInv, CacheInv, TypeOK
  <2>2. Pending(b)' \/ (pc'[q] = "panic" /\ held'[q] = b)
    <3>1. CASE full
      BY <1>1, <1>2, <3>1 DEF TypeOK
    <3>2. CASE ~full
      BY <1>2, <1>10, <1>11, <3>2 DEF new
    <3>. QED
      BY <3>1, <3>2
  <2>3. cache'[b] = v /\ v # NONE /\ \A x \in Block \ {b} : cache'[x] = cache[x]
    BY <1>1, <1>2, LogAssumption DEF TypeOK
  <2>4. \A x \in Block \ {b} : bread(x)' = bread(x) /\ home'[x] = home[x]
    BY <1>1, <2>3 DEF bread
  <2>5. \A r \in Proc : pc[r] = "panic" => pc'[r] = "panic" /\ held'[r] = held[r]
    BY <1>1, <1>2 DEF TypeOK
  <2>6. ASSUME NEW x \in Block
        PROVE  IF Pending(x)' THEN cache'[x] # NONE
               ELSE bread(x)' = home'[x] \/ \E r \in Proc : pc'[r] = "panic" /\ held'[r] = x
    <3>1. CASE x = b
      BY <2>2, <2>3, <3>1
    <3>2. CASE x # b
      BY <1>3, <1>10, <2>3, <2>4, <2>5, <3>2 DEF LogInv, CacheInv
    <3>. QED
      BY <3>1, <3>2
  <2>. QED
    BY <2>1, <2>6 DEF CacheInv
<1>14. CommitInv'
  BY <1>1, <1>3, <1>6 DEF LogInv, CommitInv
<1>15. Distinct(lh)'
  BY <1>4 DEF LogInv, Distinct, Listed, new
<1>16. Distinct(head)' /\ BootInv'
  BY <1>1, <1>3 DEF LogInv, Distinct, BootInv
<1>. QED
  BY <1>5, <1>7, <1>8, <1>12, <1>13, <1>14, <1>15, <1>16 DEF LogInv

\* end_op keeps LogInv: the last call out becomes the only process in commit.
LEMMA EndStep == ASSUME LogInv, NEW q \in Proc, end_op(q) PROVE LogInv'
<1>1. /\ pc[q] = "op" /\ held[q] = NONE
      /\ outstanding' = outstanding - 1
      /\ writes' = [writes EXCEPT ![q] = {}]
      /\ UNCHANGED <<home, logblk, head, cache, pin, lh, boot, held>>
  BY DEF end_op, disk
<1>2. TypeOK
  BY DEF LogInv
<1>3. /\ boot = "up" /\ outstanding > 0 /\ ~committing /\ Installed = 0
      /\ \A r \in Proc : pc[r] \notin {"write_log", "install", "committed"}
  BY <1>1, CallerAlone
<1>4. Committer = {}
  BY <1>3 DEF Committer
<1>5. Cardinality(Ops \ {q}) = outstanding - 1 /\ IsFiniteSet(Ops \ {q})
  BY <1>1, OpsCounted, FS_RemoveElement DEF Ops
<1>6. \A b \in Block : bread(b)' = bread(b)
  BY <1>1 DEF bread
<1>7. CASE outstanding' # 0
  <2>1. pc' = wakeup([pc EXCEPT ![q] = "idle"]) /\ UNCHANGED <<committing, tail>>
    BY <1>3, <1>7 DEF end_op
  <2>2. \A r \in Proc : pc'[r] = IF r = q THEN "idle" ELSE IF pc[r] = "sleep" THEN "begin" ELSE pc[r]
    BY <2>1, <1>2 DEF wakeup, TypeOK
  <2>3. TypeOK'
    <3>1. pc' \in [Proc -> PcStates]
      BY <2>1, <2>2, <1>2 DEF TypeOK, PcStates, wakeup
    <3>2. outstanding' \in Nat /\ writes' \in [Proc -> SUBSET Block]
      BY <1>1, <1>2, <1>3 DEF TypeOK
    <3>. QED
      BY <1>1, <1>2, <2>1, <3>1, <3>2 DEF TypeOK
  <2>4. CommitAlone'
    <3>1. Ops' = Ops \ {q} /\ Committer' = {}
      BY <2>2, <1>4 DEF Ops, Committer
    <3>. QED
      BY <1>1, <1>3, <1>5, <2>1, <3>1 DEF CommitAlone
  <2>5. SleeperHasWaker'
    BY <2>2 DEF SleeperHasWaker
  <2>6. \A r \in Proc : /\ held'[r] # NONE => pc'[r] \in {"op", "panic"}
                        /\ pc[r] = "panic" => pc'[r] = "panic" /\ held'[r] = held[r]
    BY <2>2, <1>1 DEF LogInv, CacheInv
  <2>7. \A r \in Proc : {pc[r], pc'[r]} \cap {"write_log", "install", "committed"} = {}
    BY <2>2, <1>3
  <2>. QED
    BY <1>1, <1>3, <1>6, <1>7, <2>1, <2>3, <2>4, <2>5, <2>6, <2>7, QuietStep DEF disk
<1>8. CASE outstanding' = 0
  <2>1. /\ committing' = TRUE /\ tail' = 0
        /\ pc' = [pc EXCEPT ![q] = IF lh = << >> THEN "committed" ELSE "write_log"]
    BY <1>3, <1>8 DEF end_op
  <2>2. TypeOK'
    <3>1. pc' \in [Proc -> PcStates]
      BY <2>1, <1>2 DEF TypeOK, PcStates
    <3>2. tail' \in 0..Len(lh') /\ writes' \in [Proc -> SUBSET Block]
      BY <1>1, <1>2, <2>1 DEF TypeOK
    <3>. QED
      BY <1>1, <1>2, <1>8, <2>1, <3>1, <3>2 DEF TypeOK
  <2>3. /\ pc'[q] = (IF lh = << >> THEN "committed" ELSE "write_log")
        /\ \A r \in Proc \ {q} : pc'[r] = pc[r]
    BY <2>1, <1>2 DEF TypeOK
  <2>4. CommitAlone'
    <3>1. Ops' = Ops \ {q} /\ Committer' = {q}
      BY <2>3, <1>3 DEF Ops, Committer
    <3>. QED
      BY <1>1, <1>5, <1>8, <2>1, <3>1 DEF CommitAlone
  <2>5. Ops \ {q} = {}
    BY <1>1, <1>5, <1>8, FS_EmptySet
  <2>6. \A r \in Proc : pc[r] # "panic"
    BY <1>1, <2>5 DEF Ops
  <2>7. Installed' = 0
    BY <2>1, <2>3, <1>3 DEF Installed
  <2>8. \A b \in Block : Pending(b)' <=> Pending(b)
    BY <1>1, <1>3, <2>7 DEF Pending
  <2>9. PinsBalanced'
    BY <1>1, <2>8 DEF LogInv, PinsBalanced
  <2>10. CacheInv'
    <3>1. \A r \in Proc : held'[r] # NONE => pc'[r] \in {"op", "panic"}
      BY <1>1, <2>3 DEF LogInv, CacheInv
    <3>. QED
      BY <1>1, <1>3, <1>6, <2>6, <2>8, <3>1 DEF LogInv, CacheInv
  <2>11. CommitInv'
    <3>1. \A r \in Proc : pc'[r] # "install"
      BY <2>3, <1>3
    <3>2. \A r \in Proc : pc'[r] = "committed" => lh = << >>
      BY <2>3, <1>3
    <3>3. head = << >>
      BY <1>3 DEF LogInv, CommitInv
    <3>. QED
      BY <1>1, <2>1, <3>1, <3>2, <3>3 DEF CommitInv
  <2>12. SleeperHasWaker' /\ Distinct(lh)' /\ Distinct(head)' /\ BootInv'
    BY <1>1, <1>3, <2>1 DEF LogInv, SleeperHasWaker, Distinct, BootInv
  <2>. QED
    BY <2>2, <2>4, <2>9, <2>10, <2>11, <2>12 DEF LogInv
<1>. QED
  BY <1>7, <1>8

-----------------------------------------------------------------------------
(* The steps of commit *)

\* What commit works on: the entries of log.lh are blocks, and different ones.
LEMMA Entries ==
  ASSUME LogInv
  PROVE  /\ lh \in Seq(Block) /\ Len(lh) \in Nat /\ Len(lh) <= LOGSIZE /\ tail \in 0..Len(lh)
         /\ \A i \in 1..Len(lh) : lh[i] \in Block /\ i \in 1..LOGSIZE
         /\ \A i, j \in 1..Len(lh) : lh[i] = lh[j] => i = j
  BY LogAssumption DEF LogInv, TypeOK, Distinct

\* bread returns contents, never NONE.
LEMMA BreadType == ASSUME LogInv PROVE \A b \in Block : bread(b) \in Data
  BY DEF LogInv, TypeOK, bread

\* Copying a block to the log keeps LogInv.
LEMMA WriteLogStep == ASSUME LogInv, NEW q \in Proc, write_log(q) PROVE LogInv'
<1>1. PICK b \in Block : b = lh[tail + 1] /\ tail + 1 \in 1..Len(lh)
  BY Entries DEF write_log
<1>2. /\ pc[q] = "write_log"
      /\ logblk' = [logblk EXCEPT ![tail + 1] = bread(b)]
      /\ cache' = [cache EXCEPT ![b] = bread(b)]
      /\ tail' = tail + 1
      /\ UNCHANGED <<home, head, pin, lh, outstanding, committing, boot, pc, held, writes>>
  BY <1>1 DEF write_log, call
<1>3. TypeOK /\ tail + 1 \in 1..LOGSIZE /\ bread(b) \in Data
  BY <1>1, Entries, BreadType DEF LogInv
<1>4. /\ boot = "up" /\ \A r \in Proc : pc[r] # "install" /\ pc[r] # "panic"
      /\ Installed = 0 /\ Installed' = 0
  BY <1>2, CommitterAlone DEF Installed
<1>5. TypeOK'
  <2>1. logblk' \in [1..LOGSIZE -> Data] /\ cache' \in [Block -> Data \union {NONE}]
    BY <1>2, <1>3 DEF TypeOK
  <2>2. tail' \in 0..Len(lh')
    BY <1>1, <1>2, Entries
  <2>. QED
    BY <1>2, <1>3, <2>1, <2>2 DEF TypeOK
<1>6. \A x \in Block : bread(x)' = bread(x) /\ (cache[x] # NONE => cache'[x] # NONE)
  BY <1>2, <1>3, LogAssumption DEF TypeOK, bread
<1>7. \A x \in Block : Pending(x)' <=> Pending(x)
  BY <1>2, <1>4 DEF Pending
<1>8. CommitAlone' /\ SleeperHasWaker' /\ PinsBalanced'
  <2>1. Ops' = Ops /\ Committer' = Committer
    BY <1>2 DEF Ops, Committer
  <2>. QED
    BY <1>2, <1>7, <2>1 DEF LogInv, CommitAlone, SleeperHasWaker, PinsBalanced
<1>9. CacheInv'
  BY <1>2, <1>4, <1>6, <1>7 DEF LogInv, CacheInv
<1>10. CommitInv'
  <2>1. head = << >> /\ \A i \in 1..tail : logblk[i] = bread(lh[i])
    BY <1>2, <1>4 DEF LogInv, CommitInv
  <2>2. \A i \in 1..tail' : logblk'[i] = bread(lh[i])
    BY <1>1, <1>2, <1>3, <2>1, Entries DEF TypeOK
  <2>3. \A i \in 1..tail' : bread(lh[i])' = bread(lh[i])
    BY <1>1, <1>2, <1>6, Entries
  <2>4. \A r \in Proc : pc[r] # "committed"
    BY <1>2, CommitterAlone
  <2>5. committing
    BY <1>2, CommitterAlone
  <2>. QED
    BY <1>2, <1>4, <2>1, <2>2, <2>3, <2>4, <2>5 DEF CommitInv
<1>11. Distinct(lh)' /\ Distinct(head)' /\ BootInv'
  BY <1>2, <1>4 DEF LogInv, Distinct, BootInv
<1>. QED
  BY <1>5, <1>8, <1>9, <1>10, <1>11 DEF LogInv

\* Writing the header keeps LogInv: every block of the transaction is in the log.
LEMMA WriteHeadStep == ASSUME LogInv, NEW q \in Proc, write_head(q) PROVE LogInv'
<1>1. /\ pc[q] = "write_log" /\ tail = Len(lh) /\ head' = lh /\ tail' = 0
      /\ pc' = [pc EXCEPT ![q] = "install"]
      /\ UNCHANGED <<home, logblk, cache, pin, lh, outstanding, committing, boot, held, writes>>
  BY DEF write_head
<1>2. TypeOK
  BY DEF LogInv
<1>3. /\ boot = "up" /\ committing
      /\ \A r \in Proc : pc[r] # "panic" /\ (r # q => pc[r] \notin {"write_log", "install", "committed"})
      /\ Installed = 0
  BY <1>1, CommitterAlone DEF Installed
<1>4. pc'[q] = "install" /\ \A r \in Proc \ {q} : pc'[r] = pc[r]
  BY <1>1, <1>2 DEF TypeOK
<1>5. TypeOK'
  <2>1. pc' \in [Proc -> PcStates] /\ tail' \in 0..Len(lh')
    BY <1>1, <1>2, Entries DEF TypeOK, PcStates
  <2>. QED
    BY <1>1, <1>2, <2>1 DEF TypeOK
<1>6. Installed' = 0
  BY <1>1 DEF Installed
<1>7. \A x \in Block : (Pending(x)' <=> Pending(x)) /\ bread(x)' = bread(x)
  BY <1>1, <1>3, <1>6 DEF Pending, bread
<1>8. CommitAlone' /\ SleeperHasWaker' /\ PinsBalanced'
  <2>1. Ops' = Ops /\ Committer' = Committer
    BY <1>1, <1>4 DEF Ops, Committer
  <2>. QED
    BY <1>1, <1>3, <1>7, <2>1 DEF LogInv, CommitAlone, SleeperHasWaker, PinsBalanced
<1>9. CacheInv'
  <2>1. \A r \in Proc : held'[r] = NONE
    BY <1>1, CommitterAlone
  <2>. QED
    BY <1>1, <1>3, <1>7, <2>1 DEF LogInv, CacheInv
<1>10. CommitInv'
  <2>1. \A i \in 1..Len(lh) : logblk[i] = bread(lh[i])
    BY <1>1, <1>3 DEF LogInv, CommitInv
  <2>2. \A i \in 1..Len(lh) : bread(lh[i])' = bread(lh[i])
    BY <1>1, <1>7, Entries
  <2>. QED
    BY <1>1, <1>3, <1>4, <2>1, <2>2 DEF CommitInv
<1>11. Distinct(lh)' /\ Distinct(head)' /\ BootInv'
  BY <1>1, <1>3 DEF LogInv, Distinct, BootInv
<1>. QED
  BY <1>5, <1>8, <1>9, <1>10, <1>11 DEF LogInv

\* Copying a block home keeps LogInv: it is clean from now on and unpinned.
LEMMA InstallStep == ASSUME LogInv, NEW q \in Proc, install_trans(q) PROVE LogInv'
<1>1. PICK b \in Block : b = lh[tail + 1] /\ tail + 1 \in 1..Len(lh)
  BY Entries DEF install_trans, InstallBlock
<1>2. /\ pc[q] = "install"
      /\ home' = [home EXCEPT ![b] = logblk[tail + 1]]
      /\ cache' = [cache EXCEPT ![b] = logblk[tail + 1]]
      /\ tail' = tail + 1
      /\ pin' = [pin EXCEPT ![b] = @ - 1]
      /\ UNCHANGED <<logblk, head, lh, outstanding, committing, boot, pc, held, writes>>
  BY <1>1 DEF install_trans, InstallBlock, call
<1>3. TypeOK /\ tail + 1 \in 1..LOGSIZE /\ tail \in Nat
  BY <1>1, Entries DEF LogInv
<1>4. /\ boot = "up" /\ \A r \in Proc : pc[r] # "panic" /\ pc[r] # "write_log" /\ pc[r] # "committed"
      /\ committing /\ Installed = tail /\ Installed' = tail + 1
  BY <1>2, CommitterAlone DEF Installed
<1>5. head = lh /\ \A i \in 1..Len(lh) : logblk[i] = bread(lh[i])
  BY <1>2, <1>4 DEF LogInv, CommitInv
<1>6. logblk[tail + 1] = bread(b) /\ logblk[tail + 1] \in Data
  BY <1>1, <1>3, <1>5 DEF TypeOK
<1>7. Pending(b) /\ ~Pending(b)' /\ \A x \in Block \ {b} : Pending(x)' <=> Pending(x)
  BY <1>1, <1>2, <1>3, <1>4, Entries DEF Pending
<1>8. pin[b] = 1 /\ pin'[b] = 0 /\ \A x \in Block \ {b} : pin'[x] = pin[x]
  <2>1. pin[b] = 1
    BY <1>4, <1>7 DEF LogInv, PinsBalanced
  <2>2. pin \in [Block -> Nat]
    BY <1>3 DEF TypeOK
  <2>. QED
    BY <1>2, <2>1, <2>2
<1>9. TypeOK'
  <2>1. home' \in [Block -> Data] /\ cache' \in [Block -> Data \union {NONE}]
    BY <1>2, <1>3, <1>6 DEF TypeOK
  <2>2. pin' \in [Block -> Nat]
    BY <1>2, <1>3, <1>8 DEF TypeOK
  <2>3. tail' \in 0..Len(lh')
    BY <1>1, <1>2, Entries
  <2>. QED
    BY <1>2, <1>3, <2>1, <2>2, <2>3 DEF TypeOK
<1>10. /\ \A x \in Block : bread(x)' = bread(x)
       /\ cache'[b] # NONE /\ home'[b] = bread(b)
       /\ \A x \in Block \ {b} : cache'[x] = cache[x] /\ home'[x] = home[x]
  BY <1>2, <1>3, <1>6, LogAssumption DEF TypeOK, bread
<1>11. CommitAlone' /\ SleeperHasWaker' /\ PinsBalanced'
  <2>1. Ops' = Ops /\ Committer' = Committer
    BY <1>2 DEF Ops, Committer
  <2>2. PinsBalanced'
    BY <1>2, <1>4, <1>7, <1>8 DEF LogInv, PinsBalanced
  <2>. QED
    BY <1>2, <2>1, <2>2 DEF LogInv, CommitAlone, SleeperHasWaker
<1>12. CacheInv'
  <2>1. \A x \in Block : IF Pending(x)' THEN cache'[x] # NONE ELSE bread(x)' = home'[x]
    BY <1>4, <1>7, <1>10 DEF LogInv, CacheInv
  <2>. QED
    BY <1>2, <2>1 DEF LogInv, CacheInv
<1>13. CommitInv'
  <2>1. \A i \in 1..Len(lh) : bread(lh[i])' = bread(lh[i])
    BY <1>2, <1>10, Entries
  <2>. QED
    BY <1>2, <1>4, <1>5, <2>1 DEF CommitInv
<1>14. Distinct(lh)' /\ Distinct(head)' /\ BootInv'
  BY <1>2, <1>4 DEF LogInv, Distinct, BootInv
<1>. QED
  BY <1>9, <1>11, <1>12, <1>13, <1>14 DEF LogInv

\* Once every block is home, nothing is pending.
LEMMA AllHome ==
  ASSUME LogInv, NEW q \in Proc, pc[q] = "install", tail = Len(lh)
  PROVE  \A b \in Block : ~Pending(b) /\ bread(b) = home[b]
<1>1. boot = "up" /\ Installed = Len(lh) /\ \A r \in Proc : pc[r] # "panic"
  BY CommitterAlone DEF Installed
<1>2. \A b \in Block : ~Pending(b)
  BY <1>1, Entries DEF Pending
<1>. QED
  BY <1>1, <1>2 DEF LogInv, CacheInv

\* Erasing the transaction keeps LogInv: every block is home.
LEMMA EraseStep == ASSUME LogInv, NEW q \in Proc, EraseLog(q) PROVE LogInv'
<1>1. /\ pc[q] = "install" /\ tail = Len(lh) /\ lh' = << >> /\ head' = << >> /\ tail' = 0
      /\ pc' = [pc EXCEPT ![q] = "committed"]
      /\ UNCHANGED <<home, logblk, cache, pin, outstanding, committing, boot, held, writes>>
  BY DEF EraseLog
<1>2. TypeOK
  BY DEF LogInv
<1>3. /\ boot = "up" /\ committing
      /\ \A r \in Proc : pc[r] # "panic" /\ (r # q => pc[r] \notin {"write_log", "install", "committed"})
  BY <1>1, CommitterAlone
<1>4. pc'[q] = "committed" /\ \A r \in Proc \ {q} : pc'[r] = pc[r]
  BY <1>1, <1>2 DEF TypeOK
<1>5. Len(lh') = 0 /\ lh' \in Seq(Block) /\ head' \in Seq(Block) /\ Len(head') = 0
  BY <1>1
<1>6. TypeOK'
  <2>1. pc' \in [Proc -> PcStates] /\ tail' \in 0..Len(lh')
    BY <1>1, <1>2, <1>5 DEF TypeOK, PcStates
  <2>. QED
    BY <1>1, <1>2, <1>5, <2>1, LogAssumption DEF TypeOK
<1>7. \A x \in Block : ~Pending(x)' /\ ~Pending(x) /\ bread(x)' = home[x]
  <2>1. Installed' = 0
    BY <1>1 DEF Installed
  <2>2. \A x \in Block : ~Pending(x)'
    BY <1>5, <2>1 DEF Pending
  <2>3. \A x \in Block : ~Pending(x) /\ bread(x) = home[x]
    BY <1>1, AllHome
  <2>. QED
    BY <1>1, <2>2, <2>3 DEF bread
<1>8. CommitAlone' /\ SleeperHasWaker' /\ PinsBalanced'
  <2>1. Ops' = Ops /\ Committer' = Committer
    BY <1>1, <1>4 DEF Ops, Committer
  <2>. QED
    BY <1>1, <1>3, <1>7, <2>1 DEF LogInv, CommitAlone, SleeperHasWaker, PinsBalanced
<1>9. CacheInv'
  <2>1. \A r \in Proc : held'[r] = NONE
    BY <1>1, CommitterAlone
  <2>. QED
    BY <1>1, <1>7, <2>1 DEF CacheInv
<1>10. CommitInv'
  BY <1>1, <1>3, <1>4 DEF CommitInv
<1>11. Distinct(lh)' /\ Distinct(head)' /\ BootInv'
  BY <1>1, <1>3, <1>5 DEF Distinct, BootInv
<1>. QED
  BY <1>6, <1>8, <1>9, <1>10, <1>11 DEF LogInv

\* The end of end_op keeps LogInv: the log is empty, everyone is awake.
LEMMA EndCommitStep == ASSUME LogInv, NEW q \in Proc, EndCommit(q) PROVE LogInv'
<1>1. /\ pc[q] = "committed" /\ committing' = FALSE
      /\ pc' = wakeup([pc EXCEPT ![q] = "idle"])
      /\ UNCHANGED <<home, logblk, head, cache, pin, lh, outstanding, tail, boot, held, writes>>
  BY DEF EndCommit, disk
<1>2. TypeOK
  BY DEF LogInv
<1>3. /\ boot = "up" /\ outstanding = 0
      /\ \A r \in Proc : pc[r] # "panic" /\ (r # q => pc[r] \notin {"write_log", "install", "committed"})
  BY <1>1, CommitterAlone
<1>4. \A r \in Proc : pc'[r] = IF r = q THEN "idle" ELSE IF pc[r] = "sleep" THEN "begin" ELSE pc[r]
  BY <1>1, <1>2 DEF wakeup, TypeOK
<1>5. TypeOK'
  <2>1. pc' \in [Proc -> PcStates]
    BY <1>1, <1>2, <1>4 DEF TypeOK, PcStates, wakeup
  <2>. QED
    BY <1>1, <1>2, <2>1 DEF TypeOK
<1>6. lh = << >> /\ head = << >>
  BY <1>1, <1>3 DEF LogInv, CommitInv
<1>7. Installed = 0 /\ Installed' = 0
  BY <1>1, <1>3, <1>4 DEF Installed
<1>8. \A x \in Block : (Pending(x)' <=> Pending(x)) /\ bread(x)' = bread(x)
  BY <1>1, <1>7 DEF Pending, bread
<1>9. CommitAlone' /\ SleeperHasWaker' /\ PinsBalanced'
  <2>1. Ops' = Ops /\ Committer' = {}
    BY <1>1, <1>3, <1>4 DEF Ops, Committer
  <2>2. SleeperHasWaker'
    BY <1>4 DEF SleeperHasWaker
  <2>. QED
    BY <1>1, <1>8, <2>1, <2>2 DEF LogInv, CommitAlone, PinsBalanced
<1>10. CacheInv'
  <2>1. \A r \in Proc : held'[r] = NONE
    BY <1>1, CommitterAlone
  <2>. QED
    BY <1>1, <1>3, <1>8, <2>1 DEF LogInv, CacheInv
<1>11. CommitInv'
  <2>1. \A r \in Proc : pc'[r] \notin {"write_log", "install", "committed"}
    BY <1>3, <1>4
  <2>. QED
    BY <1>1, <1>6, <2>1 DEF CommitInv
<1>12. Distinct(lh)' /\ Distinct(head)' /\ BootInv'
  BY <1>1, <1>3 DEF LogInv, Distinct, BootInv
<1>. QED
  BY <1>5, <1>9, <1>10, <1>11, <1>12 DEF LogInv

-----------------------------------------------------------------------------
(* The cache and crashes *)

\* A buffer that bget may recycle is clean.
LEMMA RecycledIsClean ==
  ASSUME LogInv, NEW b \in Block, Recycle(b)
  PROVE  bread(b) = home[b] /\ (boot = "up" => ~Pending(b))
<1>1. pin[b] = 0 /\ \A r \in Proc : held[r] # b
  BY DEF Recycle
<1>2. boot = "up" => ~Pending(b)
  BY <1>1 DEF LogInv, PinsBalanced
<1>. QED
  BY <1>1, <1>2 DEF LogInv, CacheInv, BootInv

\* Recycling a buffer keeps LogInv.
LEMMA RecycleStep == ASSUME LogInv, NEW b \in Block, Recycle(b) PROVE LogInv'
<1>1. /\ cache' = [cache EXCEPT ![b] = NONE]
      /\ UNCHANGED <<home, logblk, head, pin, lh, outstanding, committing, tail, boot, pc, held, writes>>
  BY DEF Recycle, disk, call
<1>2. TypeOK
  BY DEF LogInv
<1>3. TypeOK'
  BY <1>1, <1>2 DEF TypeOK
<1>4. /\ \A x \in Block : bread(x)' = bread(x)
      /\ \A x \in Block \ {b} : cache'[x] = cache[x]
  BY <1>1, <1>2, RecycledIsClean DEF TypeOK, bread
<1>5. Ops' = Ops /\ Committer' = Committer /\ Installed' = Installed
  BY <1>1 DEF Ops, Committer, Installed
<1>6. \A x \in Block : Pending(x)' <=> Pending(x)
  BY <1>1, <1>5 DEF Pending
<1>7. CommitAlone' /\ SleeperHasWaker' /\ PinsBalanced'
  BY <1>1, <1>5, <1>6 DEF LogInv, CommitAlone, SleeperHasWaker, PinsBalanced
<1>8. CacheInv'
  <2>1. ASSUME boot = "up", NEW x \in Block
        PROVE  IF Pending(x)' THEN cache'[x] # NONE
               ELSE bread(x)' = home'[x] \/ \E r \in Proc : pc'[r] = "panic" /\ held'[r] = x
    <3>1. CASE x = b
      BY <1>1, <1>4, <1>6, <2>1, <3>1, RecycledIsClean
    <3>2. CASE x # b
      BY <1>1, <1>4, <1>6, <2>1, <3>2 DEF LogInv, CacheInv
    <3>. QED
      BY <3>1, <3>2
  <2>. QED
    BY <1>1, <2>1 DEF LogInv, CacheInv
<1>9. CommitInv'
  <2>1. \A i \in 1..Len(lh) : bread(lh[i])' = bread(lh[i]) /\ (i \in 1..tail => i \in 1..Len(lh))
    BY <1>1, <1>4, Entries
  <2>2. \A i \in 1..tail : i \in 1..Len(lh)
    BY Entries
  <2>. QED
    BY <1>1, <2>1, <2>2 DEF LogInv, CommitInv
<1>10. Distinct(lh)' /\ Distinct(head)' /\ BootInv'
  BY <1>1, <1>4 DEF LogInv, Distinct, BootInv
<1>. QED
  BY <1>3, <1>7, <1>8, <1>9, <1>10 DEF LogInv

\* A crash keeps LogInv, wherever it happens.
LEMMA CrashStep == ASSUME LogInv, Crash PROVE LogInv'
<1>. USE DEF Crash, disk
<1>1. TypeOK'
  <2>1. << >> \in Seq(Block) /\ Len(<< >>) = 0
    OBVIOUS
  <2>2. pin' \in [Block -> Nat] /\ writes' \in [Proc -> SUBSET Block]
    OBVIOUS
  <2>3. tail' \in 0..Len(lh') /\ Len(lh') <= LOGSIZE
    BY <2>1, LogAssumption
  <2>4. pc' \in [Proc -> PcStates] /\ held' \in [Proc -> Block \union {NONE}] /\ cache' \in [Block -> Data \union {NONE}]
    BY DEF PcStates
  <2>. QED
    BY <2>1, <2>2, <2>3, <2>4 DEF LogInv, TypeOK
<1>2. Ops' = {} /\ Committer' = {}
  BY DEF Ops, Committer
<1>3. CommitAlone'
  BY <1>2, FS_EmptySet DEF CommitAlone
<1>4. PinsBalanced' /\ SleeperHasWaker' /\ Distinct(lh)' /\ CacheInv' /\ CommitInv'
  BY DEF PinsBalanced, SleeperHasWaker, Distinct, CacheInv, CommitInv
<1>5. Distinct(head)' /\ BootInv'
  BY DEF LogInv, Distinct, BootInv, bread
<1>. QED
  BY <1>1, <1>3, <1>4, <1>5 DEF LogInv

-----------------------------------------------------------------------------
(* Recovery *)

\* Before initlog returns no process runs and nothing is pending or pinned.
LEMMA Booting ==
  ASSUME LogInv, boot # "up"
  PROVE  /\ Ops = {} /\ Committer = {} /\ Installed = 0
         /\ \A q \in Proc : pc[q] = "idle" /\ held[q] = NONE
         /\ \A b \in Block : pin[b] = 0 /\ bread(b) = home[b]
         /\ outstanding = 0 /\ ~committing
  BY DEF LogInv, BootInv, Ops, Committer, Installed

\* Reading the header keeps LogInv.
LEMMA ReadHeadStep == ASSUME LogInv, read_head PROVE LogInv'
<1>. USE DEF read_head, disk, call
<1>1. boot # "up"
  OBVIOUS
<1>2. TypeOK'
  BY LogAssumption DEF LogInv, TypeOK
<1>3. Ops' = {} /\ Committer' = {}
  BY <1>1, Booting DEF Ops, Committer
<1>4. CommitAlone'
  BY <1>1, <1>3, Booting, FS_EmptySet DEF CommitAlone
<1>5. PinsBalanced' /\ SleeperHasWaker' /\ CacheInv' /\ CommitInv'
  BY <1>1, Booting DEF PinsBalanced, SleeperHasWaker, CacheInv, CommitInv
<1>6. Distinct(lh)' /\ Distinct(head)'
  BY DEF LogInv, Distinct
<1>7. BootInv'
  BY <1>1, Booting DEF BootInv, bread
<1>. QED
  BY <1>2, <1>4, <1>5, <1>6, <1>7 DEF LogInv

\* Installing a block at boot keeps LogInv.
LEMMA RecoverStep == ASSUME LogInv, RecoverBlock PROVE LogInv'
<1>1. PICK b \in Block : b = lh[tail + 1] /\ tail + 1 \in 1..Len(lh)
  BY Entries DEF RecoverBlock, InstallBlock
<1>2. /\ boot = "install"
      /\ home' = [home EXCEPT ![b] = logblk[tail + 1]]
      /\ cache' = [cache EXCEPT ![b] = logblk[tail + 1]]
      /\ tail' = tail + 1
      /\ UNCHANGED <<logblk, head, pin, lh, outstanding, committing, boot, pc, held, writes>>
  BY <1>1 DEF RecoverBlock, InstallBlock, call
<1>3. TypeOK /\ tail + 1 \in 1..LOGSIZE /\ tail \in Nat /\ boot # "up"
  BY <1>1, <1>2, Entries DEF LogInv
<1>4. logblk[tail + 1] \in Data
  BY <1>3 DEF TypeOK
<1>5. TypeOK'
  <2>1. home' \in [Block -> Data] /\ cache' \in [Block -> Data \union {NONE}]
    BY <1>2, <1>3, <1>4 DEF TypeOK
  <2>2. tail' \in 0..Len(lh')
    BY <1>1, <1>2, Entries
  <2>. QED
    BY <1>2, <1>3, <2>1, <2>2 DEF TypeOK
<1>6. \A x \in Block : bread(x)' = home'[x]
  BY <1>2, <1>3, <1>4, Booting, LogAssumption DEF TypeOK, bread
<1>7. \A i \in 1..tail' : home'[lh[i]] = logblk[i]
  <2>1. \A i \in 1..tail : home[lh[i]] = logblk[i] /\ lh[i] # b /\ lh[i] \in Block
    BY <1>1, <1>2, <1>3, Entries DEF LogInv, BootInv
  <2>2. home'[b] = logblk[tail + 1]
    BY <1>2, <1>3 DEF TypeOK
  <2>3. \A i \in 1..tail' : i = tail + 1 \/ i \in 1..tail
    BY <1>2, <1>3
  <2>4. \A x \in Block \ {b} : home'[x] = home[x]
    BY <1>2, <1>3 DEF TypeOK
  <2>. QED
    BY <1>1, <2>1, <2>2, <2>3, <2>4
<1>8. Ops' = {} /\ Committer' = {}
  BY <1>2, <1>3, Booting DEF Ops, Committer
<1>9. CommitAlone'
  BY <1>2, <1>3, <1>8, Booting, FS_EmptySet DEF CommitAlone
<1>10. PinsBalanced' /\ SleeperHasWaker' /\ CacheInv' /\ CommitInv'
  BY <1>2, <1>3, Booting DEF PinsBalanced, SleeperHasWaker, CacheInv, CommitInv
<1>11. Distinct(lh)' /\ Distinct(head)'
  BY <1>2 DEF LogInv, Distinct
<1>12. BootInv'
  <2>1. lh = head
    BY <1>2 DEF LogInv, BootInv
  <2>. QED
    BY <1>2, <1>3, <1>6, <1>7, <2>1, Booting DEF BootInv
<1>. QED
  BY <1>5, <1>9, <1>10, <1>11, <1>12 DEF LogInv

\* The end of initlog keeps LogInv: the log is empty and the cache clean.
LEMMA RecoveredStep == ASSUME LogInv, recover_from_log PROVE LogInv'
<1>1. /\ boot = "install" /\ lh' = << >> /\ head' = << >> /\ tail' = 0 /\ boot' = "up"
      /\ UNCHANGED <<home, logblk, cache, pin, outstanding, committing, pc, held, writes>>
  BY DEF recover_from_log, call
<1>2. TypeOK /\ boot # "up"
  BY <1>1 DEF LogInv
<1>3. Len(lh') = 0 /\ lh' \in Seq(Block) /\ head' \in Seq(Block) /\ Len(head') = 0
  BY <1>1
<1>4. TypeOK'
  BY <1>1, <1>2, <1>3, LogAssumption DEF TypeOK
<1>5. Ops' = {} /\ Committer' = {} /\ Installed' = 0
  BY <1>1, <1>2, Booting DEF Ops, Committer, Installed
<1>6. CommitAlone'
  BY <1>1, <1>2, <1>5, Booting, FS_EmptySet DEF CommitAlone
<1>7. \A b \in Block : ~Pending(b)' /\ bread(b)' = home'[b] /\ pin'[b] = 0
  BY <1>1, <1>2, <1>3, <1>5, Booting DEF Pending, bread
<1>8. PinsBalanced' /\ CacheInv'
  BY <1>1, <1>2, <1>7, Booting DEF PinsBalanced, CacheInv
<1>9. SleeperHasWaker' /\ CommitInv' /\ BootInv'
  BY <1>1, <1>2, Booting DEF SleeperHasWaker, CommitInv, BootInv
<1>10. Distinct(lh)' /\ Distinct(head)'
  BY <1>3 DEF Distinct
<1>. QED
  BY <1>4, <1>6, <1>8, <1>9, <1>10 DEF LogInv

-----------------------------------------------------------------------------
(* The invariant *)

\* Every step keeps LogInv.
LEMMA NextInv == ASSUME LogInv, [Next]_vars PROVE LogInv'
<1>1. CASE UNCHANGED vars
  <2>1. UNCHANGED <<Ops, Committer, Installed>> /\ \A b \in Block : bread(b)' = bread(b) /\ (Pending(b)' <=> Pending(b))
    BY <1>1 DEF vars, Ops, Committer, Installed, bread, Pending
  <2>2. TypeOK' /\ CommitAlone' /\ PinsBalanced' /\ SleeperHasWaker' /\ Distinct(lh)' /\ Distinct(head)'
    BY <1>1, <2>1 DEF vars, LogInv, TypeOK, CommitAlone, PinsBalanced, SleeperHasWaker, Distinct
  <2>3. BootInv' /\ CacheInv'
    BY <1>1, <2>1 DEF vars, LogInv, BootInv, CacheInv
  <2>4. CommitInv'
    BY <1>1 DEF vars, LogInv, CommitInv, bread
  <2>. QED
    BY <2>2, <2>3, <2>4 DEF LogInv
<1>2. ASSUME NEW q \in Proc, Call(q) \/ begin_op(q) \/ brelse(q) \/ end_op(q) PROVE LogInv'
  BY <1>2, CallStep, BeginStep, BrelseStep, EndStep
<1>3. ASSUME NEW q \in Proc, Commit(q) PROVE LogInv'
  BY <1>3, WriteLogStep, WriteHeadStep, InstallStep, EraseStep, EndCommitStep DEF Commit
<1>4. ASSUME NEW q \in Proc, NEW b \in Block, Bread(q, b) PROVE LogInv'
  BY <1>4, BreadStep
<1>5. ASSUME NEW q \in Proc, NEW v \in Data, log_write(q, v) PROVE LogInv'
  BY <1>5, LogWriteStep
<1>6. ASSUME NEW b \in Block, Recycle(b) PROVE LogInv'
  BY <1>6, RecycleStep
<1>7. CASE Crash \/ Recovery
  BY <1>7, CrashStep, ReadHeadStep, RecoverStep, RecoveredStep DEF Recovery
<1>. QED
  BY <1>1, <1>2, <1>3, <1>4, <1>5, <1>6, <1>7 DEF Next

\* LogInv holds in every reachable state: for any number of processes, blocks
\* and contents, any log size, and crashes at any time.
THEOREM LogInvariant == Spec => []LogInv
  BY InitInv, NextInv, PTL DEF Spec

\* Types: log.lh never outgrows the header and tail never outruns log.lh.
THEOREM TypesHold == Spec => []TypeOK
<1>1. LogInv => TypeOK
  BY DEF LogInv
<1>. QED
  BY <1>1, LogInvariant, PTL

\* end_op lets one process commit at a time, and no call is in progress then.
THEOREM CommitAloneHolds == Spec => []CommitAlone
<1>1. LogInv => CommitAlone
  BY DEF LogInv
<1>. QED
  BY <1>1, LogInvariant, PTL

\* log_write and install_trans pin and unpin each block once.
THEOREM PinsHold == Spec => []PinsBalanced
<1>1. LogInv => PinsBalanced
  BY DEF LogInv
<1>. QED
  BY <1>1, LogInvariant, PTL

\* No process sleeps in begin_op without a waker.
THEOREM WakersHold == Spec => []SleeperHasWaker
<1>1. LogInv => SleeperHasWaker
  BY DEF LogInv
<1>. QED
  BY <1>1, LogInvariant, PTL

\* Between commits nothing is left to write: end_op has made it durable.
THEOREM QuietHolds == Spec => []QuietIsDurable
<1>1. LogInv => QuietIsDurable
  <2>1. SUFFICES ASSUME LogInv, boot = "up", outstanding = 0, ~committing
                 PROVE  lh = << >> /\ head = << >> /\ \A b \in Block : bread(b) = home[b]
    BY DEF QuietIsDurable
  <2>2. Ops = {} /\ Committer = {}
    BY <2>1, OpsCounted DEF LogInv, CommitAlone
  <2>3. \A q \in Proc : pc[q] \notin {"op", "panic", "write_log", "install", "committed"}
    BY <2>2 DEF Ops, Committer
  <2>4. lh = << >> /\ head = << >>
    BY <2>1, <2>3 DEF LogInv, CommitInv
  <2>5. \A b \in Block : ~Pending(b)
    BY <2>3, <2>4 DEF Pending, Installed
  <2>. QED
    BY <2>1, <2>3, <2>4, <2>5 DEF LogInv, CacheInv
<1>. QED
  BY <1>1, LogInvariant, PTL

-----------------------------------------------------------------------------
(* Every call fits in the log *)

\* What the sizes must satisfy: a call writes fewer blocks than begin_op reserves
\* for it, and the log keeps one block free when all calls that begin_op can
\* have let in beside each other have written theirs (log_write panics on a
\* full log even if it would absorb the block).  It cannot be weakened to
\* OpWrites <= MAXOPBLOCKS: begin_op lets LOGSIZE / MAXOPBLOCKS calls in at once
\* and compares with LOGSIZE, log_write panics at log.size - 1 entries, and mkfs
\* makes log.size equal to LOGSIZE, so calls that use up their reservations
\* panic.
CallsFit ==
  /\ OpWrites < MAXOPBLOCKS
  /\ OpWrites < LOGSIZE /\ OpWrites < SbNlog - 1
  /\ LOGSIZE + 2 * OpWrites < SbNlog - 1 + 2 * MAXOPBLOCKS

\* The writes of the calls in progress.
Written == {e \in Proc \X Block : e[2] \in writes[e[1]]}

\* A call writes no more than OpWrites blocks, the one it has locked included,
\* and all of them are in log.lh.
OnlyCallsWrite == \A q \in Proc : pc[q] # "op" => writes[q] = {}
WritesFew == \A q \in Proc : IsFiniteSet(writes[q]) /\ Cardinality(writes[q]) <= OpWrites
HeldFits ==
  \A q \in Proc : held[q] # NONE => Cardinality(writes[q] \union {held[q]}) <= OpWrites
WritesListed == \A q \in Proc : \A b \in writes[q] : Listed(b, lh)

\* log.lh leaves room for what is reserved and not written yet; the last call
\* in progress is the only one of its transaction, or has the reserve of one
\* that has ended to spare.
RoomInv ==
  /\ outstanding > 0 =>
       Len(lh) + outstanding * MAXOPBLOCKS <= LOGSIZE + Cardinality(Written)
  /\ outstanding = 1 =>
       \/ Len(lh) <= Cardinality(Written)
       \/ Len(lh) + 2 * MAXOPBLOCKS <= LOGSIZE + OpWrites + Cardinality(Written)

SpaceInv ==
  NoPanic /\ OnlyCallsWrite /\ WritesFew /\ HeldFits /\ WritesListed /\ RoomInv

\* Pairs of a process and one of at most n blocks: at most n for each process.
LEMMA PairsBound ==
  ASSUME NEW P, IsFiniteSet(P), NEW B, NEW w \in [P -> SUBSET B], NEW n \in Nat,
         \A q \in P : IsFiniteSet(w[q]) /\ Cardinality(w[q]) <= n,
         NEW W, \A e \in W : e[1] \in P /\ e[2] \in w[e[1]] /\ e = <<e[1], e[2]>>
  PROVE  IsFiniteSet(W) /\ Cardinality(W) <= Cardinality(P) * n
<1>. DEFINE T == P \X (1..n)
            Num(q) == CHOOSE f : f \in Bijection(1..Cardinality(w[q]), w[q])
            Place(q, b) == CHOOSE i \in 1..n : i \in 1..Cardinality(w[q]) /\ Num(q)[i] = b
            h == [e \in W |-> <<e[1], Place(e[1], e[2])>>]
<1>1. ASSUME NEW q \in P, NEW b \in w[q]
      PROVE  Place(q, b) \in 1..n /\ Num(q)[Place(q, b)] = b
  <2>1. Cardinality(w[q]) \in Nat /\ Cardinality(w[q]) <= n
    BY FS_CardinalityType
  <2>2. \E f : f \in Bijection(1..Cardinality(w[q]), w[q])
    BY FS_CardinalityType DEF ExistsBijection
  <2>3. Num(q) \in Bijection(1..Cardinality(w[q]), w[q])
    BY <2>2
  <2>. HIDE DEF Num
  <2>4. PICK i \in 1..Cardinality(w[q]) : Num(q)[i] = b
    BY <2>3 DEF Bijection, Surjection
  <2>5. i \in 1..n
    BY <2>1
  <2>. QED
    BY <2>4, <2>5
<1>2. IsFiniteSet(T) /\ Cardinality(T) = Cardinality(P) * n
  <2>1. IsFiniteSet(1..n) /\ Cardinality(1..n) = n
    BY FS_Interval
  <2>2. \A R : IsFiniteSet(R) =>
               IsFiniteSet(P \X R) /\ Cardinality(P \X R) = Cardinality(P) * Cardinality(R)
    BY FS_Product
  <2>3. /\ IsFiniteSet(P \X (1..n))
        /\ Cardinality(P \X (1..n)) = Cardinality(P) * Cardinality(1..n)
    BY <2>1, <2>2, Zenon
  <2>. HIDE DEF T
  <2>4. T = P \X (1..n)
    BY DEF T
  <2>. QED
    BY <2>1, <2>3, <2>4
<1>3. \A e \in W : e[1] \in P /\ e[2] \in w[e[1]] /\ e = <<e[1], e[2]>>
  OBVIOUS
<1>. HIDE DEF Place, Num
<1>4. h \in [W -> T]
  BY <1>1, <1>3
<1>5. ASSUME NEW d \in W, NEW e \in W, h[d] = h[e] PROVE d = e
  <2>1. d[1] = e[1] /\ Place(d[1], d[2]) = Place(e[1], e[2])
    BY <1>5
  <2>2. d[2] = e[2]
    BY <2>1, <1>1, <1>3
  <2>. QED
    BY <2>1, <2>2, <1>3
<1>. HIDE DEF h, T
<1>6. h \in Injection(W, T)
  BY <1>4, <1>5 DEF Injection, IsInjective
<1>7. IsFiniteSet(W) /\ Cardinality(W) <= Cardinality(T)
  BY <1>2, <1>6, FS_Injection
<1>. QED
  BY <1>2, <1>7

\* The pairs of one process with at most n blocks.
LEMMA OnesPairs ==
  ASSUME NEW q, NEW S, IsFiniteSet(S), NEW n \in Nat, Cardinality(S) <= n,
         NEW W, \A e \in W : e[1] = q /\ e[2] \in S /\ e = <<e[1], e[2]>>
  PROVE  IsFiniteSet(W) /\ Cardinality(W) <= n
<1>. DEFINE h == [e \in W |-> e[2]]
<1>1. h \in [W -> S]
  OBVIOUS
<1>2. \A d, e \in W : h[d] = h[e] => d = e
  OBVIOUS
<1>. HIDE DEF h
<1>3. h \in Injection(W, S)
  BY <1>1, <1>2 DEF Injection, IsInjective
<1>4. IsFiniteSet(W) /\ Cardinality(W) <= Cardinality(S)
  BY <1>3, FS_Injection
<1>. QED
  BY <1>4, FS_CardinalityType

\* The calls in progress have written at most OpWrites blocks each.
LEMMA WrittenBound ==
  ASSUME LogInv, SpaceInv
  PROVE  /\ IsFiniteSet(Written) /\ Cardinality(Written) \in Nat
         /\ Cardinality(Written) <= outstanding * OpWrites
<1>1. IsFiniteSet(Ops) /\ outstanding = Cardinality(Ops) /\ outstanding \in Nat
  BY OpsCounted DEF LogInv, TypeOK
<1>. DEFINE w == [q \in Ops |-> writes[q]]
<1>2. w \in [Ops -> SUBSET Block]
  BY DEF Ops, LogInv, TypeOK
<1>3. \A q \in Ops : IsFiniteSet(w[q]) /\ Cardinality(w[q]) <= OpWrites
  BY DEF Ops, SpaceInv, WritesFew
<1>4. \A e \in Written : e[1] \in Ops /\ e[2] \in w[e[1]] /\ e = <<e[1], e[2]>>
  BY DEF Written, Ops, SpaceInv, OnlyCallsWrite
<1>. HIDE DEF w
<1>5. OpWrites \in Nat
  BY LogAssumption
<1>6. IsFiniteSet(Written) /\ Cardinality(Written) <= Cardinality(Ops) * OpWrites
  BY <1>1, <1>2, <1>3, <1>4, <1>5, PairsBound
<1>. QED
  BY <1>1, <1>6, FS_CardinalityType

\* log_write never finds the log full.
LEMMA NeverFull ==
  ASSUME CallsFit, LogInv, SpaceInv, outstanding > 0
  PROVE  Len(lh) < LOGSIZE /\ Len(lh) < SbNlog - 1
<1>. DEFINE W == Cardinality(Written)
            M == MAXOPBLOCKS - OpWrites
<1>1. /\ outstanding \in Nat /\ Len(lh) \in Nat /\ W \in Nat
      /\ W <= outstanding * OpWrites
      /\ LOGSIZE \in Nat /\ MAXOPBLOCKS \in Nat /\ SbNlog \in Nat /\ OpWrites \in Nat
  BY WrittenBound, LogAssumption DEF LogInv, TypeOK
<1>2. M \in Nat \ {0} /\ MAXOPBLOCKS = OpWrites + M
  BY <1>1 DEF CallsFit
<1>3. Len(lh) + outstanding * MAXOPBLOCKS <= LOGSIZE + W
  BY DEF SpaceInv, RoomInv
<1>. HIDE DEF W, M
<1>4. CASE outstanding = 1
  <2>1. W <= OpWrites
    BY <1>1, <1>4
  <2>2. \/ Len(lh) <= W
        \/ Len(lh) + 2 * MAXOPBLOCKS <= LOGSIZE + OpWrites + W
    BY <1>4 DEF SpaceInv, RoomInv, W
  <2>. QED
    BY <1>1, <1>2, <2>1, <2>2 DEF CallsFit
<1>5. CASE outstanding # 1
  <2>1. outstanding * MAXOPBLOCKS = outstanding * OpWrites + outstanding * M
    BY <1>1, <1>2
  <2>2. outstanding * M >= 2 * M
    BY <1>1, <1>2, <1>5
  <2>3. Len(lh) + 2 * M <= LOGSIZE
    BY <1>1, <1>2, <1>3, <2>1, <2>2
  <2>. QED
    BY <1>1, <1>2, <2>3 DEF CallsFit
<1>. QED
  BY <1>4, <1>5

\* A step that writes no block and in which no call begins or ends; the log
\* may change when no call is in progress.
LEMMA SpaceKept ==
  ASSUME LogInv, SpaceInv, UNCHANGED <<writes, outstanding>>,
         outstanding = 0 \/ UNCHANGED lh,
         \A q \in Proc : pc'[q] # "panic" /\ (pc'[q] = "op" <=> pc[q] = "op"),
         \A q \in Proc : held'[q] = held[q] \/ held'[q] = NONE
  PROVE  SpaceInv'
<1>1. Written' = Written
  BY DEF Written
<1>2. ASSUME outstanding = 0 PROVE \A q \in Proc : writes[q] = {}
  BY <1>2, OpsCounted DEF Ops, SpaceInv, OnlyCallsWrite
<1>3. \A q \in Proc : \A b \in writes[q] : Listed(b, lh)'
  BY <1>2 DEF SpaceInv, WritesListed, Listed
<1>4. NoPanic'
  BY DEF NoPanic
<1>5. OnlyCallsWrite' /\ WritesFew' /\ WritesListed'
  BY <1>3 DEF SpaceInv, OnlyCallsWrite, WritesFew, WritesListed
<1>6. HeldFits'
  BY DEF SpaceInv, HeldFits
<1>7. RoomInv'
  BY <1>1 DEF SpaceInv, RoomInv
<1>. QED
  BY <1>4, <1>5, <1>6, <1>7 DEF SpaceInv

\* begin_op lets a call in only when its reserve fits.
LEMMA SpaceBegin ==
  ASSUME LogInv, SpaceInv, NEW q \in Proc, begin_op(q)
  PROVE  SpaceInv'
<1>1. CASE MustWait
  <2>1. pc' = [pc EXCEPT ![q] = "sleep"] /\ UNCHANGED <<outstanding, writes, lh, held>>
    BY <1>1 DEF begin_op
  <2>2. \A r \in Proc : pc'[r] # "panic" /\ (pc'[r] = "op" <=> pc[r] = "op")
    BY <2>1 DEF begin_op, LogInv, TypeOK, SpaceInv, NoPanic
  <2>. QED
    BY <2>1, <2>2, SpaceKept
<1>2. CASE ~MustWait
  <2>1. /\ pc' = [pc EXCEPT ![q] = "op"] /\ outstanding' = outstanding + 1
        /\ writes' = [writes EXCEPT ![q] = {}] /\ UNCHANGED <<lh, held>> /\ pc[q] = "begin"
    BY <1>2 DEF begin_op
  <2>2. writes[q] = {}
    BY <2>1 DEF SpaceInv, OnlyCallsWrite
  <2>3. writes' = writes
    BY <2>1, <2>2 DEF LogInv, TypeOK
  <2>4. Written' = Written
    BY <2>3 DEF Written
  <2>5. \A r \in Proc : pc'[r] = IF r = q THEN "op" ELSE pc[r]
    BY <2>1 DEF LogInv, TypeOK
  <2>6. NoPanic' /\ OnlyCallsWrite'
    BY <2>3, <2>5 DEF SpaceInv, NoPanic, OnlyCallsWrite
  <2>9. WritesFew'
    BY <2>3 DEF SpaceInv, WritesFew
  <2>10. WritesListed'
    BY <2>1, <2>3 DEF SpaceInv, WritesListed, Listed
  <2>7. HeldFits'
    BY <2>1, <2>3 DEF SpaceInv, HeldFits
  <2>8. RoomInv'
    <3>1. Len(lh) + (outstanding + 1) * MAXOPBLOCKS <= LOGSIZE
      BY <1>2, LogAssumption DEF MustWait, LogInv, TypeOK
    <3>2. Cardinality(Written) \in Nat
      BY WrittenBound
    <3>3. ASSUME outstanding = 0 PROVE Len(lh) = 0
      <4>1. boot = "up"
        BY <2>1 DEF LogInv, BootInv
      <4>. QED
        BY <3>3, <4>1, <1>2 DEF LogInv, CommitInv, MustWait
    <3>4. lh' = lh /\ outstanding' = outstanding + 1 /\ outstanding \in Nat
      BY <2>1 DEF LogInv, TypeOK
    <3>. QED
      BY <2>4, <3>1, <3>2, <3>3, <3>4, LogAssumption DEF RoomInv, LogInv, TypeOK
  <2>. QED
    BY <2>6, <2>7, <2>8, <2>9, <2>10 DEF SpaceInv
<1>. QED
  BY <1>1, <1>2

\* A call locks a buffer only if it can still write the block.
LEMMA SpaceBread ==
  ASSUME LogInv, SpaceInv, NEW q \in Proc, NEW b \in Block, Bread(q, b)
  PROVE  SpaceInv'
<1>1. /\ held' = [held EXCEPT ![q] = b] /\ UNCHANGED <<pc, writes, lh, outstanding>>
      /\ Cardinality(writes[q] \union {b}) <= OpWrites
  BY DEF Bread
<1>2. \A r \in Proc : held'[r] = IF r = q THEN b ELSE held[r]
  BY <1>1 DEF LogInv, TypeOK
<1>3. NoPanic' /\ OnlyCallsWrite'
  BY <1>1 DEF SpaceInv, NoPanic, OnlyCallsWrite
<1>4. WritesFew' /\ WritesListed'
  BY <1>1 DEF SpaceInv, WritesFew, WritesListed, Listed
<1>5. HeldFits'
  BY <1>1, <1>2 DEF SpaceInv, HeldFits
<1>6. RoomInv'
  BY <1>1 DEF SpaceInv, RoomInv, Written
<1>. QED
  BY <1>3, <1>4, <1>5, <1>6 DEF SpaceInv

\* log_write finds room, and a block it adds to log.lh is new to its call.
LEMMA SpaceLogWrite ==
  ASSUME CallsFit, LogInv, SpaceInv, NEW q \in Proc, NEW v \in Data, log_write(q, v)
  PROVE  SpaceInv'
<1>. DEFINE b == held[q]
<1>1. pc[q] = "op" /\ b \in Block /\ b # NONE
  BY DEF log_write, LogInv, TypeOK
<1>2. outstanding > 0 /\ outstanding \in Nat
  BY <1>1, OpsCounted DEF Ops, LogInv, TypeOK
<1>3. Len(lh) < LOGSIZE /\ Len(lh) < SbNlog - 1
  BY <1>2, NeverFull
<1>4. ~(Len(lh) >= LOGSIZE \/ Len(lh) >= SbNlog - 1)
  BY <1>3, LogAssumption DEF LogInv, TypeOK
<1>5. /\ lh' = IF ~Listed(b, lh) THEN Append(lh, b) ELSE lh
      /\ pc' = pc /\ held' = [held EXCEPT ![q] = NONE]
      /\ writes' = [writes EXCEPT ![q] = @ \union {b}]
      /\ UNCHANGED outstanding
  BY <1>4 DEF log_write
<1>6. \A r \in Proc : /\ held'[r] = IF r = q THEN NONE ELSE held[r]
                      /\ writes'[r] = IF r = q THEN writes[q] \union {b} ELSE writes[r]
  BY <1>5 DEF LogInv, TypeOK
<1>. HIDE DEF b
<1>7. NoPanic' /\ OnlyCallsWrite'
  BY <1>1, <1>5, <1>6 DEF SpaceInv, NoPanic, OnlyCallsWrite
<1>8. WritesFew'
  <2>1. IsFiniteSet(writes[q]) /\ Cardinality(writes[q] \union {b}) <= OpWrites
    BY <1>1 DEF SpaceInv, WritesFew, HeldFits, b
  <2>2. IsFiniteSet(writes[q] \union {b})
    BY <2>1, FS_AddElement
  <2>. QED
    BY <1>6, <2>1, <2>2 DEF SpaceInv, WritesFew
<1>9. HeldFits'
  BY <1>6 DEF SpaceInv, HeldFits
<1>10. /\ Listed(b, lh')
       /\ \A c \in Block : Listed(c, lh) => Listed(c, lh')
       /\ Len(lh') = IF Listed(b, lh) THEN Len(lh) ELSE Len(lh) + 1
  <2>1. lh \in Seq(Block)
    BY DEF LogInv, TypeOK
  <2>2. CASE Listed(b, lh)
    BY <2>2, <1>5
  <2>3. CASE ~Listed(b, lh)
    <3>1. lh' = Append(lh, b)
      BY <2>3, <1>5
    <3>. QED
      BY <2>1, <2>3, <3>1, <1>1 DEF Listed
  <2>. QED
    BY <2>2, <2>3
<1>11. WritesListed'
  <2>1. \A r \in Proc : writes[r] \subseteq Block
    BY DEF LogInv, TypeOK
  <2>2. \A r \in Proc : \A c \in writes'[r] : Listed(c, lh')
    BY <1>6, <1>10, <2>1 DEF SpaceInv, WritesListed
  <2>. QED
    BY <2>2 DEF WritesListed, Listed
<1>12. IsFiniteSet(Written) /\ Cardinality(Written) \in Nat
  BY WrittenBound
<1>13. Written' = Written \union {<<q, b>>}
  BY <1>1, <1>6 DEF Written
<1>14. IsFiniteSet(Written') /\ Cardinality(Written') = IF <<q, b>> \in Written THEN Cardinality(Written) ELSE Cardinality(Written) + 1
  BY <1>12, <1>13, FS_AddElement
<1>15. ~Listed(b, lh) => <<q, b>> \notin Written
  BY <1>1 DEF SpaceInv, WritesListed, Written
<1>16. /\ outstanding' = outstanding
       /\ \/ Len(lh') = Len(lh) /\ Cardinality(Written') >= Cardinality(Written)
          \/ Len(lh') = Len(lh) + 1 /\ Cardinality(Written') = Cardinality(Written) + 1
  BY <1>5, <1>10, <1>12, <1>14, <1>15
<1>17. Len(lh) \in Nat /\ Cardinality(Written') \in Nat
  BY <1>12, <1>14 DEF LogInv, TypeOK
<1>18. RoomInv'
  BY <1>2, <1>12, <1>16, <1>17, LogAssumption DEF SpaceInv, RoomInv
<1>. QED
  BY <1>7, <1>8, <1>9, <1>11, <1>18 DEF SpaceInv

\* end_op: what the call has not written of its reserve is free again.
LEMMA SpaceEndOp ==
  ASSUME CallsFit, LogInv, SpaceInv, NEW q \in Proc, end_op(q)
  PROVE  SpaceInv'
<1>1. pc[q] = "op" /\ ~committing /\ outstanding > 0 /\ outstanding \in Nat
  BY CallerAlone DEF end_op, LogInv, TypeOK
<1>2. /\ writes' = [writes EXCEPT ![q] = {}] /\ outstanding' = outstanding - 1
      /\ UNCHANGED <<lh, held>> /\ held[q] = NONE
  BY DEF end_op
<1>3. \A r \in Proc : writes'[r] = IF r = q THEN {} ELSE writes[r]
  BY <1>2 DEF LogInv, TypeOK
<1>4. \A r \in Proc : pc'[r] # "panic" /\ (pc'[r] = "op" <=> r # q /\ pc[r] = "op")
  BY <1>1 DEF end_op, wakeup, LogInv, TypeOK, SpaceInv, NoPanic
<1>5. NoPanic' /\ OnlyCallsWrite'
  BY <1>3, <1>4 DEF SpaceInv, NoPanic, OnlyCallsWrite
<1>6. WritesFew'
  <2>1. IsFiniteSet({}) /\ Cardinality({}) = 0 /\ OpWrites \in Nat
    BY FS_EmptySet, LogAssumption
  <2>. QED
    BY <1>3, <2>1 DEF SpaceInv, WritesFew
<1>7. HeldFits'
  BY <1>2, <1>3 DEF SpaceInv, HeldFits
<1>8. WritesListed'
  BY <1>2, <1>3 DEF SpaceInv, WritesListed, Listed
<1>. DEFINE Q == {e \in Written : e[1] = q}
<1>9. IsFiniteSet(Written) /\ Cardinality(Written) \in Nat
  BY WrittenBound
<1>10. Written = Written' \union Q /\ Written' \subseteq Written /\ Written' \intersect Q = {}
  BY <1>3 DEF Written
<1>11. IsFiniteSet(Q) /\ Cardinality(Q) <= OpWrites
  <2>1. IsFiniteSet(writes[q]) /\ Cardinality(writes[q]) <= OpWrites /\ OpWrites \in Nat
    BY LogAssumption DEF SpaceInv, WritesFew
  <2>2. \A e \in Q : e[1] = q /\ e[2] \in writes[q] /\ e = <<e[1], e[2]>>
    BY DEF Written
  <2>. HIDE DEF Q
  <2>. QED
    BY <2>1, <2>2, OnesPairs
<1>. HIDE DEF Q
<1>12. IsFiniteSet(Written') /\ Cardinality(Written') \in Nat /\ Cardinality(Q) \in Nat
  BY <1>9, <1>10, <1>11, FS_Subset, FS_CardinalityType
<1>13. Cardinality(Written) = Cardinality(Written') + Cardinality(Q)
  <2>1. Cardinality(Written' \union Q)
          = Cardinality(Written') + Cardinality(Q) - Cardinality(Written' \intersect Q)
    BY <1>11, <1>12, FS_Union
  <2>2. Cardinality(Written' \intersect Q) = 0
    BY <1>10, FS_EmptySet
  <2>. QED
    BY <1>10, <1>12, <2>1, <2>2
<1>14. RoomInv'
  <2>. DEFINE W == Cardinality(Written)
              V == Cardinality(Written')
  <2>1. /\ W \in Nat /\ V \in Nat /\ W <= V + OpWrites
        /\ Len(lh) \in Nat /\ lh' = lh /\ OpWrites < MAXOPBLOCKS
        /\ LOGSIZE \in Nat /\ MAXOPBLOCKS \in Nat /\ OpWrites \in Nat
    BY <1>2, <1>9, <1>11, <1>12, <1>13, LogAssumption DEF CallsFit, LogInv, TypeOK
  <2>2. Len(lh) + outstanding * MAXOPBLOCKS <= LOGSIZE + W
    BY <1>1 DEF SpaceInv, RoomInv
  <2>3. outstanding * MAXOPBLOCKS = outstanding' * MAXOPBLOCKS + MAXOPBLOCKS
    BY <1>1, <1>2, <2>1
  <2>. HIDE DEF W, V
  <2>4. outstanding' \in Nat /\ outstanding' * MAXOPBLOCKS \in Nat
    BY <1>1, <1>2, <2>1
  <2>5. Len(lh') + outstanding' * MAXOPBLOCKS <= LOGSIZE + V
    BY <2>1, <2>2, <2>3, <2>4
  <2>6. outstanding' = 1 => Len(lh') + 2 * MAXOPBLOCKS <= LOGSIZE + OpWrites + V
    BY <1>1, <2>1, <2>2, <2>3, <2>4
  <2>. QED
    BY <2>5, <2>6 DEF RoomInv, V
<1>. QED
  BY <1>5, <1>6, <1>7, <1>8, <1>14 DEF SpaceInv

\* Every step leaves room for the calls in progress.
LEMMA SpaceStep ==
  ASSUME CallsFit, LogInv, SpaceInv, [Next]_vars
  PROVE  SpaceInv'
<1>1. ASSUME NEW q \in Proc, Call(q) \/ brelse(q) PROVE SpaceInv'
  <2>1. UNCHANGED <<writes, outstanding, lh>>
    BY <1>1 DEF Call, brelse
  <2>2. \A r \in Proc : pc'[r] # "panic" /\ (pc'[r] = "op" <=> pc[r] = "op")
    BY <1>1 DEF Call, brelse, LogInv, TypeOK, SpaceInv, NoPanic
  <2>3. \A r \in Proc : held'[r] = held[r] \/ held'[r] = NONE
    BY <1>1 DEF Call, brelse, LogInv, TypeOK
  <2>. QED
    BY <2>1, <2>2, <2>3, SpaceKept
<1>2. ASSUME NEW q \in Proc, Commit(q) PROVE SpaceInv'
  <2>1. outstanding = 0 /\ UNCHANGED <<writes, outstanding, held>>
    BY <1>2, CommitterAlone DEF Commit, write_log, write_head, install_trans, EraseLog, EndCommit, call
  <2>2. \A r \in Proc : pc'[r] # "panic" /\ (pc'[r] = "op" <=> pc[r] = "op")
    <3>1. pc \in [Proc -> PcStates] /\ \A r \in Proc : pc[r] # "panic"
      BY DEF LogInv, TypeOK, SpaceInv, NoPanic
    <3>2. pc[q] \in {"write_log", "install", "committed"}
      BY <1>2 DEF Commit, write_log, write_head, install_trans, EraseLog, EndCommit
    <3>3. \/ pc' = pc
          \/ \E s \in {"install", "committed"} : pc' = [pc EXCEPT ![q] = s]
          \/ pc' = wakeup([pc EXCEPT ![q] = "idle"])
      BY <1>2 DEF Commit, write_log, write_head, install_trans, EraseLog, EndCommit, call
    <3>. QED
      BY <3>1, <3>2, <3>3 DEF wakeup
  <2>. QED
    BY <2>1, <2>2, SpaceKept
<1>3. ASSUME NEW b \in Block, Recycle(b) PROVE SpaceInv'
  <2>1. UNCHANGED <<writes, outstanding, lh, pc, held>>
    BY <1>3 DEF Recycle, call
  <2>. QED
    BY <2>1, SpaceKept DEF SpaceInv, NoPanic
<1>4. CASE Recovery
  <2>1. outstanding = 0 /\ UNCHANGED <<writes, outstanding, pc, held>>
    BY <1>4 DEF Recovery, read_head, RecoverBlock, recover_from_log, call, LogInv, BootInv
  <2>. QED
    BY <2>1, SpaceKept DEF SpaceInv, NoPanic
<1>5. CASE Crash
  <2>1. /\ \A q \in Proc : writes'[q] = {} /\ held'[q] = NONE /\ pc'[q] = "idle"
        /\ outstanding' = 0
    BY <1>5 DEF Crash
  <2>2. IsFiniteSet({}) /\ Cardinality({}) = 0 /\ OpWrites \in Nat
    BY FS_EmptySet, LogAssumption
  <2>3. NoPanic' /\ OnlyCallsWrite' /\ WritesListed' /\ RoomInv'
    BY <2>1 DEF NoPanic, OnlyCallsWrite, WritesListed, RoomInv
  <2>4. WritesFew' /\ HeldFits'
    BY <2>1, <2>2 DEF WritesFew, HeldFits
  <2>. QED
    BY <2>3, <2>4 DEF SpaceInv
<1>6. CASE UNCHANGED vars
  BY <1>6, SpaceKept DEF vars, SpaceInv, NoPanic
<1>. QED
  BY <1>1, <1>2, <1>3, <1>4, <1>5, <1>6, SpaceBegin, SpaceBread, SpaceLogWrite, SpaceEndOp DEF Next

\* log_write never panics ("too big a transaction") and end_op never finds a
\* commit under way, for every number of processes and all sizes that satisfy
\* CallsFit.
THEOREM NoPanicIfFits == CallsFit /\ Spec => []NoPanic
<1>. SUFFICES ASSUME CallsFit PROVE Spec => []NoPanic
  OBVIOUS
<1>1. Init => SpaceInv
  <2>1. IsFiniteSet({}) /\ Cardinality({}) = 0 /\ OpWrites \in Nat
    BY FS_EmptySet, LogAssumption
  <2>2. Init => WritesFew /\ HeldFits
    BY <2>1 DEF Init, WritesFew, HeldFits
  <2>3. Init => NoPanic /\ OnlyCallsWrite /\ WritesListed /\ RoomInv
    BY DEF Init, NoPanic, OnlyCallsWrite, WritesListed, RoomInv
  <2>. QED
    BY <2>2, <2>3 DEF SpaceInv
<1>2. LogInv /\ SpaceInv /\ [Next]_vars => SpaceInv'
  BY SpaceStep
<1>3. SpaceInv => NoPanic
  BY DEF SpaceInv
<1>. QED
  BY <1>1, <1>2, <1>3, LogInvariant, PTL DEF Spec

\* With the sizes of param.h and mkfs.c (LOGSIZE is 3 * MAXOPBLOCKS, and sb.nlog
\* is LOGSIZE) it is enough that every call leaves one block of its reservation
\* unused: then log_write and end_op never panic, for every MAXOPBLOCKS and every
\* number of processes.
THEOREM NoPanicHolds ==
  ASSUME OpWrites < MAXOPBLOCKS, LOGSIZE = 3 * MAXOPBLOCKS, SbNlog = LOGSIZE
  PROVE  Spec => []NoPanic
<1>1. CallsFit
  BY LogAssumption DEF CallsFit
<1>. QED
  BY <1>1, NoPanicIfFits

-----------------------------------------------------------------------------
(* The log implements AtomicDisk *)

\* What a boot would recover: the log's copy of the blocks in the header.
LEMMA DurableFacts ==
  ASSUME LogInv
  PROVE  /\ Durable = [b \in Block |-> Durable[b]]
         /\ \A i \in 1..Len(head) : head[i] \in Block /\ Durable[head[i]] = logblk[i]
         /\ \A b \in Block : ~Listed(b, head) => Durable[b] = home[b]
<1>1. Durable = [b \in Block |-> Durable[b]]
  BY DEF Durable
<1>2. \A i, j \in 1..Len(head) : head[i] = head[j] => i = j
  BY DEF LogInv, Distinct
<1>3. ASSUME NEW i \in 1..Len(head)
      PROVE  head[i] \in Block /\ Durable[head[i]] = logblk[i]
  <2>1. head[i] \in Block
    BY DEF LogInv, TypeOK
  <2>2. (CHOOSE j \in 1..Len(head) : head[j] = head[i]) = i
    BY <1>2
  <2>. QED
    BY <2>1, <2>2 DEF Durable, Listed
<1>4. \A b \in Block : ~Listed(b, head) => Durable[b] = home[b]
  BY DEF Durable
<1>. QED
  BY <1>1, <1>3, <1>4

\* With an empty header a boot would find the home blocks as they are.
LEMMA DurableIsHome ==
  ASSUME LogInv, head = << >>
  PROVE  \A b \in Block : Durable[b] = home[b]
  BY DurableFacts DEF Listed

\* While the transaction in the header is installed, a boot would recover what
\* bread returns.
LEMMA DurableIsView ==
  ASSUME LogInv, NEW q \in Proc, pc[q] = "install"
  PROVE  \A b \in Block : Durable[b] = bread(b)
<1>1. boot = "up" /\ \A r \in Proc : pc[r] # "panic"
  BY CommitterAlone
<1>2. head = lh /\ \A i \in 1..Len(lh) : logblk[i] = bread(lh[i])
  BY <1>1 DEF LogInv, CommitInv
<1>3. ASSUME NEW b \in Block, Listed(b, head) PROVE Durable[b] = bread(b)
  BY <1>2, <1>3, DurableFacts DEF Listed
<1>4. ASSUME NEW b \in Block, ~Listed(b, head) PROVE Durable[b] = bread(b)
  <2>1. ~Pending(b)
    <3>1. Installed \in Nat
      BY Entries DEF Installed
    <3>. QED
      BY <1>2, <1>4, <3>1, Entries DEF Pending, Listed
  <2>. QED
    BY <1>1, <1>4, <2>1, DurableFacts DEF LogInv, CacheInv
<1>. QED
  BY <1>3, <1>4

\* The same, as a fact about a state.
InstallIsDurable ==
  \A q \in Proc : pc[q] = "install" => \A b \in Block : Durable[b] = bread(b)

\* install_trans copies what a boot would recover.
LEMMA InstallView == LogInv => InstallIsDurable
  BY DurableIsView DEF InstallIsDurable

\* Equal contents block by block are equal contents.
LEMMA ViewFacts ==
  ASSUME LogInv
  PROVE  /\ boot = "up" => View = [b \in Block |-> bread(b)]
         /\ boot # "up" => View = Durable
  BY DEF View

\* The next two lemmas: a step that leaves every block as bread returns it
\* leaves View, one that leaves it as a boot recovers it leaves Durable.
LEMMA SameView ==
  ASSUME LogInv, LogInv', boot = "up", boot' = "up",
         \A b \in Block : bread(b)' = bread(b)
  PROVE  View' = View
  BY DEF View

\* See the lemma before.
LEMMA SameDurable ==
  ASSUME LogInv, LogInv', \A b \in Block : Durable[b]' = Durable[b]
  PROVE  Durable' = Durable
<1>1. Durable = [b \in Block |-> Durable[b]] /\ Durable' = [b \in Block |-> Durable'[b]]
  BY DEF Durable
<1>. QED
  BY <1>1

\* Nothing a boot looks at has changed.
LEMMA DiskSame == ASSUME UNCHANGED disk PROVE Durable' = Durable
  BY DEF disk, Durable, Listed

\* A step that the file system and a reboot cannot see.
Invisible == UNCHANGED <<Durable, View, outstanding>>

\* System calls: begin_op and end_op count, a log_write is seen by later
\* reads, and nothing else is visible.
LEMMA CallSimulation ==
  ASSUME LogInv, LogInv', NEW q \in Proc
  PROVE  /\ Call(q) \/ brelse(q) => Invisible
         /\ begin_op(q) => Invisible \/ AD!Begin
         /\ end_op(q) => AD!End
         /\ \A b \in Block : Bread(q, b) => Invisible
         /\ \A v \in Data : log_write(q, v) => \E b \in Block : AD!Write(b, v)
<1>1. ASSUME Call(q) \/ brelse(q) PROVE Invisible
  <2>1. UNCHANGED <<disk, cache, boot, outstanding>>
    BY <1>1 DEF Call, brelse
  <2>2. boot = "up"
    BY <1>1, UpAndRunning DEF Call, brelse
  <2>3. \A b \in Block : bread(b)' = bread(b)
    BY <2>1 DEF bread, disk
  <2>. QED
    BY <2>1, <2>2, <2>3, SameView, DiskSame DEF Invisible
<1>2. ASSUME begin_op(q) PROVE Invisible \/ AD!Begin
  <2>1. UNCHANGED <<disk, cache, boot>> /\ (outstanding' = outstanding \/ outstanding' = outstanding + 1)
    BY <1>2 DEF begin_op
  <2>2. boot = "up"
    BY <1>2, UpAndRunning DEF begin_op
  <2>3. \A b \in Block : bread(b)' = bread(b)
    BY <2>1 DEF bread, disk
  <2>. QED
    BY <2>1, <2>2, <2>3, SameView, DiskSame DEF Invisible, AD!Begin
<1>3. ASSUME end_op(q) PROVE AD!End
  <2>1. UNCHANGED <<disk, cache, boot>> /\ outstanding' = outstanding - 1
    BY <1>3 DEF end_op
  <2>2. boot = "up" /\ outstanding > 0
    BY <1>3, CallerAlone DEF end_op
  <2>3. \A b \in Block : bread(b)' = bread(b)
    BY <2>1 DEF bread, disk
  <2>. QED
    BY <2>1, <2>2, <2>3, SameView, DiskSame DEF AD!End
<1>4. ASSUME NEW b \in Block, Bread(q, b) PROVE Invisible
  <2>1. UNCHANGED <<disk, boot, outstanding>> /\ cache' = [cache EXCEPT ![b] = bread(b)]
    BY <1>4 DEF Bread
  <2>2. boot = "up"
    BY <1>4, UpAndRunning DEF Bread
  <2>3. \A x \in Block : bread(x)' = bread(x)
    BY <2>1 DEF bread, disk, LogInv, TypeOK
  <2>. QED
    BY <2>1, <2>2, <2>3, SameView, DiskSame DEF Invisible
<1>5. ASSUME NEW v \in Data, log_write(q, v) PROVE \E b \in Block : AD!Write(b, v)
  <2>1. PICK b \in Block : b = held[q]
    BY <1>5 DEF log_write, LogInv, TypeOK
  <2>2. UNCHANGED <<disk, boot, outstanding>> /\ cache' = [cache EXCEPT ![b] = v] /\ pc[q] = "op"
    BY <1>5, <2>1 DEF log_write
  <2>3. boot = "up" /\ outstanding > 0
    BY <2>2, CallerAlone
  <2>4. \A x \in Block : bread(x)' = IF x = b THEN v ELSE bread(x)
    BY <2>2, LogAssumption DEF bread, disk, LogInv, TypeOK
  <2>5. View' = [View EXCEPT ![b] = v]
    BY <2>2, <2>3, <2>4 DEF View
  <2>6. Durable' = Durable
    BY <2>2, DiskSame
  <2>. QED
    BY <2>2, <2>3, <2>5, <2>6 DEF AD!Write
<1>. QED
  BY <1>1, <1>2, <1>3, <1>4, <1>5

\* commit: everything becomes durable at once, when the header reaches the
\* disk; its other steps are not visible.
LEMMA CommitSimulation ==
  ASSUME LogInv, LogInv', NEW q \in Proc, Commit(q)
  PROVE  Invisible \/ AD!Commit
<1>1. boot = "up" /\ outstanding = 0 /\ UNCHANGED <<boot, outstanding>>
  <2>1. pc[q] \in {"write_log", "install", "committed"} /\ UNCHANGED <<boot, outstanding>>
    BY DEF Commit, write_log, write_head, install_trans, EraseLog, EndCommit
  <2>. QED
    BY <2>1, CommitterAlone
<1>2. CASE write_log(q)
  <2>1. PICK b \in Block : b = lh[tail + 1] /\ tail + 1 \in 1..Len(lh)
    BY <1>2, Entries DEF write_log
  <2>2. cache' = [cache EXCEPT ![b] = bread(b)] /\ UNCHANGED <<home, head, pc>> /\ pc[q] = "write_log"
    BY <1>2, <2>1 DEF write_log, call
  <2>3. \A x \in Block : bread(x)' = bread(x)
    BY <2>2 DEF bread, LogInv, TypeOK
  <2>4. head = << >>
    <3>1. \A r \in Proc : pc[r] # "install"
      BY <2>2, CommitterAlone
    <3>. QED
      BY <1>1, <3>1 DEF LogInv, CommitInv
  <2>5. \A x \in Block : Durable[x]' = Durable[x]
    BY <2>2, <2>4 DEF Durable, Listed
  <2>. QED
    BY <1>1, <2>3, <2>5, SameView, SameDurable DEF Invisible
<1>3. CASE write_head(q)
  <2>1. pc'[q] = "install" /\ UNCHANGED <<cache, home>>
    BY <1>3 DEF write_head, LogInv, TypeOK
  <2>2. \A x \in Block : bread(x)' = bread(x)
    BY <2>1 DEF bread
  <2>3. View' = View
    BY <1>1, <2>2, SameView
  <2>4. \A x \in Block : Durable'[x] = bread(x)'
    <3>1. LogInv' => InstallIsDurable'
      BY InstallView, PTL
    <3>. QED
      BY <2>1, <3>1 DEF InstallIsDurable
  <2>5. Durable' = View
    BY <1>1, <2>2, <2>4 DEF View, Durable
  <2>. QED
    BY <1>1, <2>3, <2>5 DEF AD!Commit
<1>4. CASE install_trans(q)
  <2>1. pc[q] = "install" /\ pc'[q] = "install"
    BY <1>4 DEF install_trans, call
  <2>2. PICK b \in Block : b = lh[tail + 1] /\ tail + 1 \in 1..Len(lh)
    BY <1>4, Entries DEF install_trans, InstallBlock
  <2>3. /\ home' = [home EXCEPT ![b] = logblk[tail + 1]]
        /\ cache' = [cache EXCEPT ![b] = logblk[tail + 1]]
        /\ UNCHANGED <<logblk, head>>
    BY <1>4, <2>2 DEF install_trans, InstallBlock
  <2>4. logblk[tail + 1] = bread(b) /\ logblk[tail + 1] \in Data /\ head = lh
    BY <1>1, <2>1, <2>2, Entries DEF LogInv, CommitInv, TypeOK
  <2>5. \A x \in Block : bread(x)' = bread(x)
    BY <2>3, <2>4, LogAssumption DEF bread, LogInv, TypeOK
  <2>6. Listed(b, head)
    BY <2>2, <2>4 DEF Listed
  <2>7. \A x \in Block : Durable[x]' = Durable[x]
    BY <2>3, <2>6 DEF Durable, Listed, LogInv, TypeOK
  <2>. QED
    BY <1>1, <2>5, <2>7, SameView, SameDurable DEF Invisible
<1>5. CASE EraseLog(q)
  <2>1. pc[q] = "install" /\ tail = Len(lh) /\ head' = << >> /\ UNCHANGED <<home, cache>>
    BY <1>5 DEF EraseLog
  <2>2. \A x \in Block : bread(x)' = bread(x) /\ bread(x) = home[x] /\ Durable[x] = bread(x)
    BY <2>1, AllHome, DurableIsView DEF bread
  <2>3. \A x \in Block : Durable[x]' = home[x]
    BY <2>1 DEF Durable, Listed
  <2>. QED
    BY <1>1, <2>2, <2>3, SameView, SameDurable DEF Invisible
<1>6. CASE EndCommit(q)
  <2>1. UNCHANGED <<disk, cache>>
    BY <1>6 DEF EndCommit
  <2>2. \A b \in Block : bread(b)' = bread(b)
    BY <2>1 DEF bread, disk
  <2>. QED
    BY <1>1, <2>1, <2>2, SameView, DiskSame DEF Invisible
<1>. QED
  BY <1>2, <1>3, <1>4, <1>5, <1>6 DEF Commit

\* The cache, crashes and recovery: a crash takes the file system back to what
\* is durable, recovery makes it readable again.
LEMMA RestSimulation ==
  ASSUME LogInv, LogInv'
  PROVE  /\ \A b \in Block : Recycle(b) => Invisible
         /\ Crash => AD!Crash
         /\ Recovery => Invisible
<1>1. ASSUME NEW b \in Block, Recycle(b) PROVE Invisible
  <2>1. UNCHANGED <<disk, boot, outstanding>> /\ cache' = [cache EXCEPT ![b] = NONE]
    BY <1>1 DEF Recycle
  <2>2. \A x \in Block : bread(x)' = bread(x)
    BY <1>1, <2>1, RecycledIsClean DEF bread, disk, LogInv, TypeOK
  <2>3. Durable' = Durable
    BY <2>1, DiskSame
  <2>4. View' = View
    BY <2>1, <2>2, <2>3 DEF View
  <2>. QED
    BY <2>1, <2>3, <2>4 DEF Invisible
<1>2. ASSUME Crash PROVE AD!Crash
  <2>1. UNCHANGED disk /\ boot' = "read" /\ outstanding' = 0
    BY <1>2 DEF Crash
  <2>2. Durable' = Durable
    BY <2>1, DiskSame
  <2>3. View' = Durable'
    BY <2>1 DEF View
  <2>. QED
    BY <2>1, <2>2, <2>3 DEF AD!Crash
<1>3. ASSUME read_head PROVE Invisible
  <2>1. UNCHANGED <<disk, outstanding>> /\ boot # "up" /\ boot' # "up"
    BY <1>3 DEF read_head
  <2>2. Durable' = Durable
    BY <2>1, DiskSame
  <2>. QED
    BY <2>1, <2>2 DEF Invisible, View
<1>4. ASSUME RecoverBlock PROVE Invisible
  <2>1. boot = "install" /\ UNCHANGED <<boot, outstanding, logblk, head>>
    BY <1>4 DEF RecoverBlock
  <2>2. PICK b \in Block : b = lh[tail + 1] /\ tail + 1 \in 1..Len(lh)
    BY <1>4, Entries DEF RecoverBlock, InstallBlock
  <2>3. home' = [home EXCEPT ![b] = logblk[tail + 1]]
    BY <1>4, <2>2 DEF RecoverBlock, InstallBlock
  <2>4. Listed(b, head)
    BY <2>1, <2>2 DEF Listed, LogInv, BootInv
  <2>5. \A x \in Block : Durable[x]' = Durable[x]
    BY <2>1, <2>3, <2>4 DEF Durable, Listed, LogInv, TypeOK
  <2>6. Durable' = Durable
    BY <2>5, SameDurable
  <2>. QED
    BY <2>1, <2>6 DEF Invisible, View
<1>5. ASSUME recover_from_log PROVE Invisible
  <2>1. /\ boot = "install" /\ tail = Len(lh) /\ boot' = "up" /\ head' = << >>
        /\ UNCHANGED <<outstanding, home, cache>>
    BY <1>5 DEF recover_from_log
  <2>2. lh = head /\ \A i \in 1..Len(lh) : home[lh[i]] = logblk[i]
    BY <2>1 DEF LogInv, BootInv
  <2>3. \A x \in Block : Durable[x] = home[x]
    BY <2>2, DurableFacts DEF Listed
  <2>4. \A x \in Block : Durable[x]' = home[x]
    BY <2>1 DEF Durable, Listed
  <2>5. Durable' = Durable
    BY <2>3, <2>4, SameDurable
  <2>6. \A x \in Block : bread(x)' = home[x]
    BY <2>1, Booting DEF bread
  <2>7. View' = Durable
    BY <2>1, <2>3, <2>6 DEF View, Durable
  <2>. QED
    BY <2>1, <2>5, <2>7 DEF Invisible, View
<1>. QED
  BY <1>1, <1>2, <1>3, <1>4, <1>5 DEF Recovery

\* The log implements AtomicDisk: whenever the machine stops, a boot recovers
\* the writes of whole system calls, those up to the last commit.
THEOREM Refinement == Spec => ImplementsAtomicDisk
<1>1. Init => AD!Init
  <2>. SUFFICES ASSUME Init PROVE AD!Init
    OBVIOUS
  <2>1. Durable = [b \in Block |-> Zero]
    BY DEF Init, Durable, Listed
  <2>. QED
    BY <2>1 DEF Init, View, AD!Init
<1>2. LogInv /\ LogInv' /\ [Next]_vars => [AD!Next]_(AD!vars)
  <2>. SUFFICES ASSUME LogInv, LogInv', [Next]_vars PROVE AD!Next \/ Invisible
    BY DEF AD!vars, Invisible
  <2>1. CASE UNCHANGED vars
    BY <2>1 DEF vars, Invisible, Durable, View, Listed, bread
  <2>2. ASSUME NEW q \in Proc, Call(q) \/ begin_op(q) \/ brelse(q) \/ end_op(q) PROVE AD!Next \/ Invisible
    BY <2>2, CallSimulation DEF AD!Next
  <2>3. ASSUME NEW q \in Proc, Commit(q) PROVE AD!Next \/ Invisible
    BY <2>3, CommitSimulation DEF AD!Next
  <2>4. ASSUME NEW q \in Proc, NEW b \in Block, Bread(q, b) PROVE AD!Next \/ Invisible
    BY <2>4, CallSimulation
  <2>5. ASSUME NEW q \in Proc, NEW v \in Data, log_write(q, v) PROVE AD!Next \/ Invisible
    BY <2>5, CallSimulation DEF AD!Next
  <2>6. ASSUME NEW b \in Block, Recycle(b) PROVE AD!Next \/ Invisible
    BY <2>6, RestSimulation
  <2>7. CASE Crash \/ Recovery
    BY <2>7, RestSimulation DEF AD!Next
  <2>. QED
    BY <2>1, <2>2, <2>3, <2>4, <2>5, <2>6, <2>7 DEF Next
<1>. QED
  BY <1>1, <1>2, LogInvariant, PTL DEF Spec, ImplementsAtomicDisk, AD!Spec
=============================================================================
