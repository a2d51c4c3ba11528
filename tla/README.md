# Verification of the OShard kernel

This directory is a TLA+ development for the kernel in `src/kernel`, with the allocator and the
shell of `src/user`: an xv6 for RISC-V whose memory comes from a buddy allocator with one allocation
bit per pair of buddies, and whose `struct file` objects come from that allocator instead of a fixed
table. Modules model components one action per operation, critical section or loop iteration; TLC
checks them on small instances; TLAPS proves what matters most for every value of the constants.
`PROJECT.json` maps every definition to the lines it models.

## 1. The system

| Part | Modules | Operations | What makes it hard |
|---|---|---|---|
| buddy allocator (`buddy.c`, `kalloc.c`) | `BuddyTree`, `Buddy`, `BuddyInit`, `Heap` | `bd_init`, `bd_malloc`, `bd_free` | one bit stands for two blocks; splitting and merging over many sizes; ends of memory that are not aligned |
| redo log (`log.c`) | `Log`, `AtomicDisk` | `begin_op`, `log_write`, `end_op`, `commit`, recovery | crashes between disk writes and inside recovery; space reserved for concurrent calls |
| processes (`proc.c`) | `Proc` | `fork`, `exit`, `wait`, `kill`, `sleep`, `wakeup`, `yield`, `scheduler` | lost wakeups, a stack freed in use, orphans |
| spin locks, traps, clock (`spinlock.c`, `trap.c`, `sysproc.c`) | `Trap` | `acquire`, `release`, `usertrap`, `kerneltrap`, `clockintr`, `sys_sleep` | interrupts anywhere; a thread goes on on another hart; `ticks` wraps |
| pipes (`pipe.c`) | `Pipe`, `Fifo` | `pipewrite`, `piperead`, `pipeclose` | both ends sleep on each other; kill, faults and close cut calls short; indices wrap |
| open files (`file.c`, `sysfile.c`) | `File` | `open`, `dup`, `close`, `pipe`, and what `fork` and `exit` do to descriptors | reference counts over several processes; no memory |
| buffer cache, sleep-locks (`bio.c`, `sleeplock.c`) | `Bio` | `bread`, `bwrite`, `brelse`, `bpin`, `bunpin`, `acquiresleep`, `releasesleep` | the lock of the table is dropped before that of the buffer is taken; recycling |
| inode table, names (`fs.c`, `sysfile.c`) | `Inode`, `Names` | `iget`, `ilock`, `iput`, `namex`, `create`, `link`, `unlink`, `chdir` | the last `iput` of an unlinked inode; lock order of directories |
| contents of files (`fs.c`, `file.c`) | `FileData` | `filewrite`, `fileread`, `writei`, `readi`, `bmap`, `balloc`, `bzero`, `bfree`, `itrunc` | shared offsets and inodes; blocks freed while still listed; a disk that fills up half-way |
| disk driver (`virtio_disk.c`) | `VirtioDisk` | `virtio_disk_rw`, `virtio_disk_intr`, the device | completions out of order; descriptors run out; 16-bit indices |
| console, serial line (`console.c`, `uart.c`) | `Console`, `Uart` | read, write, interrupt, echo, `printf` | the handler against sleeping processes; output past ring and lock |
| user memory, exec (`vm.c`, `exec.c`) | `Vm` | `uvmalloc`, `uvmcopy`, `uvmunmap`, `copyin`, `copyout`, `exec` | failure half-way; page boundaries |
| `malloc` (`user/umalloc.c`) | `Umalloc` | `malloc`, `free`, `morecore` | a circular list that is its own index |
| shell (`user/sh.c`) | `ShParse`, `ShRun` | `parsecmd`, `runcmd` | recursive descent; pipe ends left open |

Interactions: the file system runs every call between `begin_op` and `end_op`; the log pins buffers
of the cache so that they are not recycled before they are installed; open files hold pipes and
inodes; pipes, the log, drivers and sleep-locks sleep and wake through `proc.c`; pages, pipes and
files come from the buddy allocator. Each module takes of its neighbours what it needs of them
(the log has an abstract cache, the cache an atomic disk, files have pages that run out); the modules
of a component and of its abstraction are related by refinement.

## 2. How the modules relate to the code

A section under a spinlock is one step wherever no other action can see inside it; only `Trap` has
spinlocks as code, and shows what the others assume of them. A test and the `sleep` it leads to are
two steps where something (a `kill`) can come between. History variables (`latest` of `Bio`,
`content` of `FileData`, `typed` and `lines` of `Console`, `wrote` and `shown` of `Uart`, `slept` of
`Trap`, `lost` of `Names`) record what the properties compare with and decide nothing.

**`BuddyTree`, `Buddy`, `BuddyInit`.** `BuddyTree` has the arithmetic of blocks, the bit arrays as sets
of set positions, and the state that a set of reserved leaves calls for. `BuddyInit` is `bd_init`:
choose `nsizes`, mark the allocator's own data and the memory beyond the end, size by size, fill the
free lists, check the total. Its result is checked to be the initial state of `Buddy`; the comparison
leaves out the bit of the root, which `bd_free` never reads. `Buddy` runs `bd_malloc` and `bd_free`
one loop iteration per step. Free lists are sets: their order only decides which block `lst_pop`
returns, and the model lets it return any. A caller of `bd_free` passes a block it got from
`bd_malloc`, once. `Heap` is the promise to callers: regions that overlap neither each other nor
reserved memory.

**`Log`.** `commit` takes one step per disk write. `Crash` is enabled in every state and keeps only the
disk; recovery may crash again. A block reaches the disk whole: this is assumed of the disk.
`Recycle` drops any buffer that is neither pinned nor held. `OpWrites` is the number of blocks that a
call really writes. In `AtomicDisk` calls write in memory, everything written reaches the disk in one
step while no call is in progress, and a crash goes back to the last such step. The mapping sends its
disk to what a boot would recover now and its view to what `bread` returns.

**`Proc`.** Slots of `proc[]`, harts, `p->lock` where it is kept across `swtch` or by `fork`, and
`wait_lock`. A process is inside `swtch` (`switched`) until a scheduler has moved to or away from its
stack. Only the channel of `wait` is modelled; other sleepers are in their own modules. A killed
`init` stops where `exit` panics ("init exiting"). `MaxPid` bounds the pids.

**`Trap`.** Harts with `sstatus.SIE`, `noff` and `intena`; threads as stacks of at most two frames, the
handler's on top of what it interrupted; `acquire` in three steps (`push_off` and the test of
`holding`, the swap, `lk->cpu`), `release` in two. Timer interrupts come wherever interrupts are on,
and the handler takes the same `tickslock` as the code under it. `TickBound` is the one bound: a
process that sleeps looks at `ticks` before they have gone round once (13 years at ten a second).

**`Pipe`.** One pipe with its readers and writers. Indices count modulo `UINT`, a multiple of
`PIPESIZE` as 2^32 is of 512. `Killable` and `Faulty` say which processes may be killed, or have a
buffer that is not mapped. The queue of `Fifo` is read off the ring between the two indices.

**`File`.** Blocks for `struct file`, pages for pipes, descriptor tables. `fileclose` is four steps,
since `f->lock` is released before the object behind the file is closed and the memory freed.
`Use`/`Used` is the time a process spends in `fileread`, `filewrite` or `filestat`.

**`Bio`.** A process holds one buffer at a time and uses it as `log.c` does: a buffer that was modified
stays pinned until it is written.

**`Inode`, `Names`.** The inode table's operations are operators; `Names` builds the system calls from
them, one step per lock taken and per `iput`. Entries are named by their inode number: which of the
`NINODE` entries is used does not matter, and the table has room for all.

**`FileData`.** `filewrite` in rounds, each a transaction under the inode's lock. Under that lock every
section under the lock of another buffer is a step of its own: `balloc` looks at one bitmap block
after the other and marks a block, `bzero` clears it, `bmap` records it in the inode or in the
indirect block, `writei` fills one block; `itrunc` frees block by block, clears each address after
its `bfree`, and leaves the entries of the indirect block as they are. So another process can
allocate a block that the truncated inode still lists. Freed blocks keep their contents. A block is
`BSIZE` cells, and a cell holds either a byte, tagged with the value written and its offset in the
file, or a block number; the code's four bytes for a number take one cell, so `NINDIRECT` is `BSIZE`.
Reading a block that was not cleared as an indirect block yields whatever numbers are there. When
`copyin` fails inside `writei` the bytes copied so far stay in the buffer; that a recycled buffer
brings the old ones back is not modelled, since no property depends on the bytes of a failed write.
`iput`'s call of `itrunc` is in `Names`, where an inode has no contents.

**`VirtioDisk`, `Console`, `Uart`.** Drivers with their devices: the device completes requests in any
order and interrupts; a failed `alloc3_desc` takes what is free and gives it back. The UART takes a
character at a time; `uartputc_sync` writes past lock and ring, for the echo in the handler and for
`printf` on another hart (`pr.lock` lets one hart print at a time). All indices wrap.

**`Vm`.** Each call is one step on the page table of its process, with `kalloc` failing at any point;
`walk`'s table pages are counted. Pages have no identity.

**`Umalloc`, `ShParse`, `ShRun`.** `malloc` and `free` one call per step. The parser is run on every
line up to a length and compared with a grammar; `ShRun` runs parsed lines, with programs that read
their input to the end.

## 3. Runs

Components that do not touch each other share a run: the variable `part` of its MC module chooses the
one a behaviour is of, and the others rest. Their state spaces add up; they do not multiply. The MC
modules are `MCMemory`, `MCLog`, `MCHarts` (`proc`), `MCProcLive`, `MCFile`, `MCNames`, `MCPipe`,
`MCDevices`, and `MCProc` (`proc_kill_zero`).

| Run | Instance | What it shows |
|---|---|---|
| `memory` | 8 leaves, first and last reserved, 2 harts, requests up to more than the heap; `bd_init` on every range of 12 to 96 bytes; 2 processes and 19 pages; a heap of 16 headers; 3 processes, 2 buffers, 3 blocks | `BlockPartition`, `Coalesced`, `FailsOnlyWhenFull`, refinement of `Heap` (`ImplementsHeap`); `bd_init` makes `Buddy`'s initial state (`InitialState`); no page leaks at any failure (`MemoryAccounted`), copies stop where they must (`CopiesMatch`); `HeapTiled`; `RefcntExact` and `ReadsLatest` of the cache |
| `log` | 2 processes, 3 blocks, `LOGSIZE` and `sb.nlog` 4, 2 blocks reserved for a call, which writes 1 | atomicity across crashes (`ImplementsAtomicDisk`), room for every call that leaves a block of its reservation (`NoPanic`), sleepers in `begin_op` are woken (`SleepersWake`) |
| `proc` | 3 slots, 2 harts, pids to 4, kills; and 2 harts, 1 process, ticks modulo 4 | one hart per stack (`StackHasOneHart`), no lost wakeup of `wait` (`SleeperHasNoZombie`), every process has a parent that can wait (`ParentCanWait`); `InterruptsDisciplined`; `sys_sleep` sleeps its ticks (`SleepsItsTicks`) |
| `proc_live` | 3 slots, 1 hart | orphans are reaped (`OrphansReaped`); a process killed in user space exits (`VictimExits`) |
| `file` | 3 processes, 2 descriptors each, 3 files, 1 page | reference counts and the objects behind files match (`RefsMatch`), a file in use is not freed (`UseIsSafe`) |
| `names` | 2 processes, 3 inodes, 2 names, 8 calls; every line of up to 5 characters; 6 pipelines with failures | references (`InodeRefsExact`) and link counts (`LinksMatch`) are exact, no inode is freed under a name (`NoInodePanic`), no order of locks deadlocks; the parser builds the tree of the grammar (`ParsesGrammar`); a line that is run comes to its end (`LinesEnd`) |
| `pipe` | 1 reader, 2 writers, 2 bytes of ring, indices modulo 4; 2 processes, 2 inodes, 3 open files, 5 blocks of 2 bytes, 3 bitmap blocks, 2 direct addresses, `MAXOPBLOCKS` 8, writes of 1, 2 and 7 bytes, 5 calls | refinement of `Fifo` through wrap-around, kills, faults and closes (`ImplementsFifo`), no lost wakeup (`SleepersMissNothing`), the page is freed unused (`FreedUnused`); `BlocksOwnedOnce`, `ContentMatches`, `OffsetHeld`, `TransactionFits` |
| `devices` | 3 processes, 8 descriptors; 2 readers, a ring of 3; a ring of 2 with 1 writer, echoes and `printf`, or with 2 writers | descriptors have one owner (`DescriptorsOwned`), requests are transferred once (`TransferredOnce`) and finish (`SubmittedFinishes`); the console's ring holds what was typed (`ConsoleHolds`); output keeps its order (`OutputInOrder`) and is shown (`OutputShown`) |
| `proc_kill_zero` | 2 slots, 1 hart, kills of pid 0 | violates `UnusedIsClean` (section 5) |
| `pipe_kill` | the pipe of `pipe`, one writer may be killed | violates `ReaderSleepsOnEmpty` |
| `file_null` | 2 processes, 2 files, 1 page | violates `FileallocReturns` |
| `names_dotdot` | as `names`, with `chdir("..")` | violates `NoInodePanic` |

Deadlock is checked except where a system may stop: when `bd_init` has returned or after a panic of
`bget` (`memory`), after the panic of `filealloc` (`file`), and when all ends of a pipe are closed
(`pipe`).

**Why the bounds are enough.** The heap has three levels of splitting, both ends reserved, and more
requests than memory; buffers are fewer than processes and blocks, so that recycling, waiting and the
panic of `bget` happen; 19 pages run out inside `fork` and `exec`. In `log`, calls have to wait for
space and write the same block. In `proc`, two harts give every race of exit, wait and kill, and a slot
is used twice; of `Trap`'s state space two processes are beyond a run, and the proof covers any number.
The pipe's indices, the rings' and `ticks` wrap; a write is longer than the pipe. A round of
`filewrite` takes up to 4 bytes; a file of one byte that is written on from there has a round over
three blocks, the first of them old, that crosses into the indirect block and finds its three new
blocks in three bitmap blocks: it logs exactly the 8 blocks of its reservation, and a `max` without the
two blocks of slop would overflow it. One inode has two open files with their own offsets, whose writes
overlap, and the disk is too small for all. `MaxCalls` bounds the calls of a behaviour: five are enough
for a block to go from one file to another and for the layout just described. Eight descriptors serve
two requests of three, so the third process waits. Two processes with eight calls, which meet in one
directory, reach removed directories, links into them and failures of `ialloc`.

**Preconditions.** `BuddyInit` takes ranges that are no exact power of two of leaves, and metadata of
at most `MaxMeta` leaves and a quarter of the heap, as `kinit` passes. The calls of `names` do not
walk up from a removed directory: see `names_dotdot` below. The inode table has room for every inode
of the disk, so the panic "iget: no inodes" cannot happen there.

**Fairness.** `Log`: a scheduled process goes on; strong fairness of `end_op` says that a call makes
finitely many reads. `Proc`: every hart scans all slots for ever, timer interrupts keep coming, a
spinlock that is free again and again is acquired at last, and `init` calls `wait` for ever
(`user/init.c`). `VirtioDisk`: the device answers, its interrupts are taken, and a process that was
woken gets `vdisk_lock` in the end. `Uart`: the device sends, interrupts are taken, whoever holds
`uart_tx_lock` goes on. Neither `begin_op` nor sleep-locks are free of starvation: the properties say
that a sleeper is woken, not that it wins.

## 4. What the properties say

The comment before each property states it. Those of one component belong together: in `Bio`,
`RefcntExact` is why a buffer can be waited for without `bcache.lock`, and `ReadsLatest` is what this
is for; in `File`, `RefsMatch` is why `UseIsSafe` holds; in `Names`, `NoInodePanic` rests on
`InodeRefsExact` (no inode leaves the table under a pointer) and `LinksMatch` (none is freed under a
name). `BlocksOwnedOnce` counts the block between `balloc` and `bmap` as its process's, and does not
count what `itrunc` has freed and not yet cleared. `TransactionFits` is about `filewrite`; `itrunc`
logs the inode and the bitmap blocks it clears, of which this kernel's disk has one.
`LinksMatch` excepts entries made in a directory that another process has removed after
`namex` returned it: `create` and `link` do not look at its link count, and the inode is lost.

## 5. Disagreements between code and comments

Four runs state what a comment or a caller says, and TLC shows that the code does otherwise.

- `proc_kill_zero`: `kill(0)` marks an unused slot, and the process that gets the slot next exits.
- `pipe_kill`: a writer that is killed after storing some bytes returns without waking the readers.
- `file_null`: `filealloc` clears the memory it got without testing that it got any, although both
  its callers test the result.
- `names_dotdot`: a process whose current directory was removed can walk up through `..` to a parent
  that has been freed, and `ilock` panics.

More was met while modelling and proving, and has no run. `wait` (`proc.c:388`) and `consoleread`
(`console.c:79`) test `killed` before `sleep` takes `p->lock`: a kill in between is not noticed until a
child exits, or a line is typed. If calls wrote `MAXOPBLOCKS` blocks each, as `param.h` allows ("max #
of blocks any FS op writes"), `log_write` would panic before `begin_op` stops anybody, since `mkfs`
counts the header in `LOGSIZE`: in the instance of run `log`, `NoPanic` fails with `OpWrites` = 2. The
calls of this kernel write fewer. And `forkret` does not always have interrupts on: after a process has
yielded inside a handler, the scheduler scans on with interrupts off, and a new process that it picks
then starts with them off. `usertrapret` turns interrupts off anyway, so nothing depends on it. The
proof attempt for `Trap` showed this, with two processes, where a first version of
`InterruptsDisciplined` said the opposite and held with one.

## 6. Proofs

| Module | About | Inductive invariant | Proved, for every value of the constants |
|---|---|---|---|
| `BuddyProofs` | `Buddy` | `BuddyInv` | `BlockPartition`, `AllocBitIsXor`, `Coalesced`, `SizeFindsBlock`, `RemovesListed`, `FailsOnlyWhenFull`, refinement of `Heap` |
| `LogProofs` | `Log` | `LogInv`, `SpaceInv` | `CommitAlone`, `PinsBalanced`, `SleeperHasWaker`, `QuietIsDurable`, `NoPanic`, refinement of `AtomicDisk` |
| `PipeProofs` | `Pipe` | `PipeInv` | `FreedUnused`, `SleepersMissNothing`, refinement of `Fifo` |
| `ProcProofs` | `Proc` | `ProcInv` | `StackHasOneHart`, `SleeperHasNoZombie`, `ParentCanWait` |
| `FileSteps`, `FileProofs` | `File` | `FileInv` | `RefsMatch`, `UseIsSafe` |
| `BioProofs` | `Bio` | `BioInv` | `RefcntExact`, `ReadsLatest` |
| `TrapProofs` | `Trap` | `TrapInv` | `InterruptsDisciplined`, `SleepsItsTicks` |

Each proof shows that the initial states satisfy the invariant, that every action keeps it (one lemma
per conjunct or per action), and that it implies the property; the last step is temporal logic. What
the conjuncts add to the checked properties is what makes them inductive:

**`BuddyInv`.** A hart is in a call exactly while it holds the lock; the locals of a call are in range
and its block is aligned; a held block has one holder; and every block around a split block is split
(`SplitUp`, which is why `size` finds the right size before it runs off `bd_sizes`). The step that
matters is `Merge`: by `AllocBitIsXor` the flipped bit says that the buddy is not in use, and by
`BlockPartition` it is then on its free list. `FailsOnlyWhenFull` adds that the sizes `bd_malloc` has
passed have empty lists (`PassedEmpty`). If a block of the wanted size held nothing in use, take the
smallest existing block around it, which a well-founded order on sizes provides: it is not free, since
its list is empty; not in use; and not split, since its half around the wanted block would exist and be
smaller. `BlockPartition` leaves nothing else. Assumed: sizes double (`SizesAssumption`), a block is a
whole number of smaller ones (`NestingAssumption`), something is reserved (`ReservedAssumption`),
requests are positive (`CallersAssumption`).

**`LogInv`.** A header names no block twice; during boot nothing else runs and what is cached is clean;
a block waiting to be installed is cached and every other one is clean; and how much of the
transaction is in the log at each point of `commit`. The write of the header is the one visible step
of a commit: every other step, a crash in recovery included, leaves what a boot would recover as it
was. Assumed: `LogAssumption` (a call's reservation fits in the log, finitely many processes).
`NoPanic` also needs `SpaceInv`: all the blocks of the calls in progress are in `log.lh`, and its
length, with what these calls have reserved and not written, is at most `LOGSIZE`; the last call in
progress has more to spare unless it is alone in its transaction (`RoomInv`). It is
proved for sizes that satisfy `CallsFit` (`NoPanicIfFits`), and `NoPanicHolds` is the case of the code,
a log of 3 * `MAXOPBLOCKS` blocks, header included, and calls that write fewer than `MAXOPBLOCKS`
different blocks: at most 9. A call that writes all of its 10 is excluded, and must be (section 5).
The longest calls of this kernel, the rounds of `filewrite`, write fewer: with one bitmap block, an
inode, an indirect block, the bitmap and four data blocks. `TransactionFits` is about any number of
bitmap blocks, and there a round may use its whole reservation.

**`PipeInv`.** Whoever is in a loop holds `pi->lock`; a process in a call has its descriptor open, which
keeps the page; a sleeping writer has a full pipe, or a reader is at work that will wake it before it
gives the lock up, and the other way round as long as no writer was killed (`pipe_kill` is why). The
refinement needs that the distance of the indices modulo `UINT` never exceeds `PIPESIZE`, and that
positions modulo `PIPESIZE` agree before and after wrap-around, which is why `UINT` has to be a
multiple (`PipeAssumption`).

**`ProcInv`.** A hart alone uses the stack of its process until `Resume`, with `p->lock` held; the slot
that `fork` fills belongs to it alone; `wait_lock` is held from the reparenting of `exit` until ZOMBIE
and from the scan of `wait` until its sleep; a parent lives and has not handed its children over yet;
and no child about to become a ZOMBIE has a sleeping parent. Assumed: `ProcAssumption` (there is a
slot for `init`; `NONE` is no slot).

**`FileInv`.** A close is pending exactly while a process is in `fileclose`, of one file or of the two of
a pipe; `exit` has passed the descriptors it closed and `fork` has not reached those its child lacks;
who uses a file has it among its descriptors; `f->ref` counts the references (`Counted`); a file
without references has one closer; and ends of pipes correspond to files one to one. Only the file
that `pipealloc` leaves behind when the second `filealloc` panics is not counted (`file_null`); the
theorems cover that state too, and `RefsMatch` says of counts what it says as long as nothing
panicked. `FileSteps` has what each action does to counts, `FileProofs` the invariant. Assumed:
`FileAssumption` (finitely many processes and blocks; `NOFILE` is positive).

**`BioInv`.** A process from `bget` to the end of `brelse` refers to a buffer that has its block
(`Refers`); `b->lock` is held exactly by a process past `acquiresleep` and not past `releasesleep`
(`Locking`); `refcnt` is the number of such processes plus the pin (`Counts`); and a valid buffer has
what was last stored in its block, which is on disk unless the block is pinned (`Contents`). So
`BgetRecycles`, which takes a buffer with `refcnt` 0, takes it from nobody and loses nothing: this is
where the two theorems need each other. Assumed: `BioAssumption` (finitely many processes).

**`TrapInv`.** The stack of a thread is one frame, or two with a handler on top (`Stacks`); a process
runs on one hart at most, whose scheduler waits for it in `swtch`, and the others are parked where
`sched` or `fork` left them (`Placed`); a lock is taken exactly by the hart whose thread is at a point
of the code that holds it, and `lk->cpu` names that hart between the third step of `acquire` and the
first of `release` (`Locks`); `noff` is the number of locks that this point of the code holds, plus the
one being released, interrupts are off while it is positive, and `intena` recalls for each point what
they were before (`Nesting`), saved by `sched` with the thread and not with the hart; only `Hart0`
counts ticks (`Counting`); and in the loop of `sys_sleep` `ticks` is `ticks0` plus the ticks slept, or
that less `TickRange` (`Sleeping`). None of the panics of `acquire`, `release`, `pop_off` and `sched`
is then reachable. Assumed: `TrapAssumption` (the names differ; naps are at most half of `TickRange`,
as a positive `int` is of 2^32).

**Only model-checked.** Liveness (`SleepersWake`, `OrphansReaped`, `VictimExits`, `SubmittedFinishes`,
`OutputShown`), and `LinesEnd`, which is stated with ENABLED: out of the prover's reach. `InitialState`
needs an induction over the sizes; the prover has no induction over data. `MemoryAccounted`,
`CopiesMatch`, `HeapTiled` and `ParsesGrammar` are about loops written as recursive operators, which
the prover's SMT backend does not take. `NoInodePanic` does not hold for every set of calls
(`names_dotdot`), so that there is no theorem to state without excluding some. `InodeRefsExact`,
`LinksMatch`, the four properties of `FileData` and the safety properties of `VirtioDisk`, `Console`
and `Uart` have no proof yet; nothing is known to stand in the way.

## 7. Not modelled

Boot, assembly, the interrupt controller, the formatting of `printf`, strings, system call dispatch,
`mkfs` and the other user programs: they are sequential, keep no shared state or only touch machine
registers. `list.c` is taken as sets. The components are not composed into one machine: `Log` over
`Bio` over `VirtioDisk`, or `File` over `Pipe` and `Names`, are each checked against what the layer
below promises.
