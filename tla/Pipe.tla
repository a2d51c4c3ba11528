-------------------------------- MODULE Pipe --------------------------------
(***************************************************************************)
(* One pipe of pipe.c with the processes that have it open: pipewrite,     *)
(* piperead, pipeclose, and kill, which wakes a sleeping caller.  A loop   *)
(* iteration under pi->lock is one step; the tests of a loop and the sleep *)
(* they lead to are two, since kill does not take pi->lock.                *)
(***************************************************************************)
EXTENDS Naturals, Sequences, FiniteSets

CONSTANTS Reader, Writer,  \* processes with the read, the write end open
          Byte,
          PIPESIZE,
          UINT,            \* 2^w: nread and nwrite are w-bit integers
          MaxN,            \* bound on the n of one call
          Killable,        \* processes that are killed
          Faulty,          \* processes whose buffer is not mapped in full
          NONE

ASSUME PipeAssumption ==
  /\ PIPESIZE \in Nat \ {0} /\ UINT \in Nat
  /\ PIPESIZE < UINT /\ UINT % PIPESIZE = 0
  /\ MaxN \in Nat
  /\ NONE \notin Reader \cup Writer
  /\ Reader \cap Writer = {} /\ Killable \cup Faulty \subseteq Reader \cup Writer

Proc == Reader \cup Writer

VARIABLES
  data, nread, nwrite, readopen, writeopen,   \* struct pipe
  lock,      \* holder of pi->lock
  freed,     \* the page was given back by kfree
  open,      \* processes whose descriptor counts in the ref of their end's file
  killed,
  pc,        \* where each process is
  left       \* n - i of its call

vars == <<data, nread, nwrite, readopen, writeopen, lock, freed, open, killed, pc, left>>

pipe == <<data, nread, nwrite, readopen, writeopen>>

\* The state after pipealloc, the descriptors passed on by fork.
Init ==
  /\ data \in [0..(PIPESIZE - 1) -> Byte]
  /\ nread = 0 /\ nwrite = 0
  /\ readopen = TRUE /\ writeopen = TRUE
  /\ lock = NONE /\ freed = FALSE
  /\ open = Proc
  /\ killed = [p \in Proc |-> FALSE]
  /\ pc = [p \in Proc |-> "idle"]
  /\ left = [p \in Proc |-> 0]

\* Mutant of full: one byte too many.
fullTooLate == nwrite = (nread + PIPESIZE + 1) % UINT

full == nwrite = (nread + PIPESIZE) % UINT
empty == nread = nwrite

\* pc after wakeup(&pi->nread) or wakeup(&pi->nwrite), with p at where.
woken(asleep, awake, p, where) ==
  [q \in Proc |-> IF q = p THEN where ELSE IF pc[q] = asleep THEN awake ELSE pc[q]]
wakeup_nread(p, where) == woken("rsleep", "rlock", p, where)
wakeup_nwrite(p, where) == woken("wsleep", "wlock", p, where)

Goto(p, where) == pc' = [pc EXCEPT ![p] = where]

\* p holds pi->lock and is at where.
In(p, where) == lock = p /\ pc[p] = where

-----------------------------------------------------------------------------
(* pipewrite *)

sys_write(p) ==
  /\ pc[p] = "idle" /\ p \in open /\ ~killed[p]
  /\ \E n \in 0..MaxN : left' = [left EXCEPT ![p] = n]
  /\ Goto(p, "wlock")
  /\ UNCHANGED <<pipe, lock, freed, open, killed>>

\* acquire(&pi->lock), on entry and at the end of sleep.
WriteLocks(p) ==
  /\ pc[p] = "wlock" /\ lock = NONE
  /\ lock' = p
  /\ Goto(p, "write")
  /\ UNCHANGED <<pipe, freed, open, killed, left>>

\* Nobody can read any more, or p is killed.
WriteFails(p) ==
  /\ In(p, "write") /\ left[p] > 0
  /\ ~readopen \/ killed[p]
  /\ lock' = NONE
  /\ left' = [left EXCEPT ![p] = 0]
  /\ Goto(p, "idle")
  /\ UNCHANGED <<pipe, freed, open, killed>>

\* Mutant of WriteFull: the readers are not woken.
WriteFullQuietly(p) ==
  /\ In(p, "write") /\ left[p] > 0
  /\ readopen /\ ~killed[p]
  /\ full
  /\ Goto(p, "write_sleep")
  /\ UNCHANGED <<pipe, lock, freed, open, killed, left>>

\* The pipe is full: the readers are woken before p sleeps.
WriteFull(p) ==
  /\ In(p, "write") /\ left[p] > 0
  /\ readopen /\ ~killed[p]
  /\ full
  /\ pc' = wakeup_nread(p, "write_sleep")
  /\ UNCHANGED <<pipe, lock, freed, open, killed, left>>

\* sleep(&pi->nwrite, &pi->lock)
WriteSleeps(p) ==
  /\ In(p, "write_sleep")
  /\ lock' = NONE
  /\ Goto(p, "wsleep")
  /\ UNCHANGED <<pipe, freed, open, killed, left>>

WriteByte(p) ==
  /\ In(p, "write") /\ left[p] > 0
  /\ readopen /\ ~killed[p]
  /\ ~full
  /\ \E ch \in Byte : data' = [data EXCEPT ![nwrite % PIPESIZE] = ch]
  /\ nwrite' = (nwrite + 1) % UINT
  /\ left' = [left EXCEPT ![p] = @ - 1]
  /\ UNCHANGED <<nread, readopen, writeopen, lock, freed, open, killed, pc>>

\* The loop is over, or copyin fails at a byte that there is room for.
WriteDone(p) ==
  /\ In(p, "write")
  /\ left[p] > 0 => p \in Faulty /\ readopen /\ ~killed[p] /\ ~full
  /\ lock' = NONE
  /\ left' = [left EXCEPT ![p] = 0]
  /\ pc' = wakeup_nread(p, "idle")
  /\ UNCHANGED <<pipe, freed, open, killed>>

-----------------------------------------------------------------------------
(* piperead *)

sys_read(p) ==
  /\ pc[p] = "idle" /\ p \in open /\ ~killed[p]
  /\ \E n \in 0..MaxN : left' = [left EXCEPT ![p] = n]
  /\ Goto(p, "rlock")
  /\ UNCHANGED <<pipe, lock, freed, open, killed>>

ReadLocks(p) ==
  /\ pc[p] = "rlock" /\ lock = NONE
  /\ lock' = p
  /\ Goto(p, "read")
  /\ UNCHANGED <<pipe, freed, open, killed, left>>

\* The pipe is empty and may still be written: p gives up if it is killed.
ReadEmpty(p) ==
  /\ In(p, "read")
  /\ empty /\ writeopen
  /\ IF killed[p] THEN lock' = NONE /\ Goto(p, "idle") /\ left' = [left EXCEPT ![p] = 0]
                  ELSE UNCHANGED <<lock, left>> /\ Goto(p, "read_sleep")
  /\ UNCHANGED <<pipe, freed, open, killed>>

\* sleep(&pi->nread, &pi->lock)
ReadSleeps(p) ==
  /\ In(p, "read_sleep")
  /\ lock' = NONE
  /\ Goto(p, "rsleep")
  /\ UNCHANGED <<pipe, freed, open, killed, left>>

ReadStarts(p) ==
  /\ In(p, "read")
  /\ ~(empty /\ writeopen)
  /\ Goto(p, "read_copy")
  /\ UNCHANGED <<pipe, lock, freed, open, killed, left>>

ReadByte(p) ==
  /\ In(p, "read_copy")
  /\ left[p] > 0 /\ ~empty
  /\ nread' = (nread + 1) % UINT
  /\ left' = [left EXCEPT ![p] = @ - 1]
  /\ UNCHANGED <<data, nwrite, readopen, writeopen, lock, freed, open, killed, pc>>

\* copyout fails: the byte is taken and not counted.
ReadFault(p) ==
  /\ In(p, "read_copy") /\ p \in Faulty
  /\ left[p] > 0 /\ ~empty
  /\ nread' = (nread + 1) % UINT
  /\ lock' = NONE
  /\ left' = [left EXCEPT ![p] = 0]
  /\ pc' = wakeup_nwrite(p, "idle")
  /\ UNCHANGED <<data, nwrite, readopen, writeopen, freed, open, killed>>

ReadDone(p) ==
  /\ In(p, "read_copy")
  /\ left[p] = 0 \/ empty
  /\ lock' = NONE
  /\ left' = [left EXCEPT ![p] = 0]
  /\ pc' = wakeup_nwrite(p, "idle")
  /\ UNCHANGED <<pipe, freed, open, killed>>

-----------------------------------------------------------------------------
(* fileclose and pipeclose *)

Side(p) == IF p \in Writer THEN Writer ELSE Reader

\* The file of p's end loses a reference; the last one closes the end.
fileclose(p) ==
  /\ pc[p] = "idle" /\ p \in open
  /\ open' = open \ {p}
  /\ Goto(p, IF open \cap Side(p) = {p} THEN "close" ELSE "idle")
  /\ UNCHANGED <<pipe, lock, freed, killed, left>>

\* Mutant of pipeclose: the last close of either end frees the pipe.
PipecloseFrees(p) ==
  /\ pc[p] = "close" /\ lock = NONE
  /\ IF p \in Writer
       THEN /\ writeopen' = FALSE /\ pc' = wakeup_nread(p, "idle")
            /\ UNCHANGED readopen
       ELSE /\ readopen' = FALSE /\ pc' = wakeup_nwrite(p, "idle")
            /\ UNCHANGED writeopen
  /\ freed' = TRUE
  /\ UNCHANGED <<data, nread, nwrite, lock, open, killed, left>>

\* pipeclose wakes the other end and frees the pipe when both are closed.
pipeclose(p) ==
  /\ pc[p] = "close" /\ lock = NONE
  /\ IF p \in Writer
       THEN /\ writeopen' = FALSE /\ pc' = wakeup_nread(p, "idle")
            /\ UNCHANGED readopen
       ELSE /\ readopen' = FALSE /\ pc' = wakeup_nwrite(p, "idle")
            /\ UNCHANGED writeopen
  /\ freed' = (freed \/ (~readopen' /\ ~writeopen'))
  /\ UNCHANGED <<data, nread, nwrite, lock, open, killed, left>>

-----------------------------------------------------------------------------
\* kill wakes p wherever it sleeps.
kill(p) ==
  /\ killed' = [killed EXCEPT ![p] = TRUE]
  /\ Goto(p, CASE pc[p] = "rsleep" -> "rlock"
               [] pc[p] = "wsleep" -> "wlock"
               [] OTHER -> pc[p])
  /\ UNCHANGED <<pipe, lock, freed, open, left>>

-----------------------------------------------------------------------------
Write(p) ==
  \/ WriteFails(p) \/ WriteFull(p) \/ WriteSleeps(p) \/ WriteByte(p) \/ WriteDone(p)

Read(p) ==
  \/ ReadEmpty(p) \/ ReadSleeps(p) \/ ReadStarts(p) \/ ReadByte(p) \/ ReadFault(p)
  \/ ReadDone(p)

Next ==
  \/ \E p \in Writer : sys_write(p) \/ WriteLocks(p) \/ Write(p)
  \/ \E p \in Reader : sys_read(p) \/ ReadLocks(p) \/ Read(p)
  \/ \E p \in Proc : fileclose(p) \/ pipeclose(p)
  \/ \E p \in Killable : kill(p)

Spec == Init /\ [][Next]_vars

-----------------------------------------------------------------------------
InPipe == (nwrite + UINT - nread) % UINT

Abs == INSTANCE Fifo WITH
         Capacity <- PIPESIZE,
         queue <- [k \in 1..InPipe |-> data[(nread + k - 1) % PIPESIZE]],
         readEnd <- readopen, writeEnd <- writeopen

\* The pipe is a bounded FIFO, through any wrap-around of its indices, with
\* any number of readers and writers that are cut short by kill, by a failing
\* copyin or copyout, or by a close.
ImplementsFifo == Abs!Spec

\* A reader that sleeps has nothing to read ("pipe-empty"): no wakeup of a
\* writer, or of the close of the write end, is lost.
ReaderSleepsOnEmpty ==
  lock = NONE /\ (\E p \in Reader : pc[p] = "rsleep") => empty /\ writeopen

\* A writer that sleeps has no room and somebody may still make some
\* ("pipewrite-full"), and, as long as no writer has been killed, a reader that
\* sleeps has nothing to read: kills of readers, faults of copyin and copyout and
\* closes lose no wakeup.
SleepersMissNothing ==
  /\ lock = NONE /\ (\E p \in Writer : pc[p] = "wsleep") => full /\ readopen
  /\ (\A w \in Writer : ~killed[w]) => ReaderSleepsOnEmpty

\* Nobody is inside a call on a pipe whose page was freed, and the page is
\* freed once both ends are closed: the references of the files keep it.
FreedUnused ==
  /\ freed <=> ~readopen /\ ~writeopen
  /\ freed => \A p \in Proc : pc[p] = "idle" /\ p \notin open

=============================================================================
