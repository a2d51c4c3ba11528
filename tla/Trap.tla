-------------------------------- MODULE Trap --------------------------------
(***************************************************************************)
(* Spinlocks, interrupts and the clock: kernel/spinlock.c, the traps of    *)
(* kernel/trap.c, sched and its callers of kernel/proc.c, and sys_sleep    *)
(* and sys_uptime of kernel/sysproc.c.  Harts take timer interrupts        *)
(* wherever interrupts are on; the handler takes the same tickslock as the *)
(* code it interrupts, and may leave for another hart in yield.  A lock is *)
(* taken in the three steps of acquire and given back in the two of        *)
(* release; a thread is a stack of frames, the handler's on top.           *)
(***************************************************************************)
EXTENDS Naturals, Sequences, FiniteSets

CONSTANTS TrapHart, TrapProc,
          Hart0,      \* the hart whose timer counts ticks
          Ticklock,
          TickRange,  \* ticks count modulo TickRange (2^32 in the code)
          Naps,       \* arguments of sys_sleep
          NoHart, NoLock

ASSUME TrapAssumption ==
  /\ Hart0 \in TrapHart /\ NoHart \notin TrapHart
  /\ TrapHart \intersect TrapProc = {}
  /\ Ticklock \notin TrapProc /\ NoLock \notin TrapProc \union {Ticklock}
  /\ TickRange \in Nat \ {0}
  /\ Naps \subseteq Nat /\ \A n \in Naps : n <= TickRange \div 2

Thread == TrapProc \union TrapHart   \* a hart stands for its scheduler thread
LockId == TrapProc \union {Ticklock} \* a process stands for its p->lock

VARIABLES
  hart,    \* struct cpu and sstatus.SIE: [intr, noff, intena, cur]
  stack,   \* thread -> frames: [pc, sub, lk], sub a step of acquire or release
           \* of lk; in wakeup lk is the set of processes still to be looked at
  spin,    \* struct spinlock: [locked, cpu]
  ps,      \* process -> [state, killed, intena (of sched), ticks0, n]
  ticks,
  slept,   \* process -> ticks since it read ticks0 in sys_sleep
  tpanic

trapVars == <<hart, stack, spin, ps, ticks, slept, tpanic>>

Frame(pc) == [pc |-> pc, sub |-> "-", lk |-> NoLock]

TrapInit ==
  /\ hart = [h \in TrapHart |-> [intr |-> FALSE, noff |-> 0, intena |-> FALSE, cur |-> h]]
  /\ stack = [t \in Thread |-> IF t \in TrapHart THEN <<Frame("loop")>> ELSE <<Frame("forkret")>>]
  /\ spin = [l \in LockId |-> [locked |-> FALSE, cpu |-> NoHart]]
  /\ ps = [p \in TrapProc |-> [state |-> "RUNNABLE", killed |-> FALSE, intena |-> FALSE,
                               ticks0 |-> 0, n |-> 0]]
  /\ ticks = 0
  /\ slept = [p \in TrapProc |-> 0]
  /\ tpanic = FALSE

TopFrame(t) == stack[t][Len(stack[t])]
Runs(h, pc) == TopFrame(hart[h].cur).pc = pc /\ TopFrame(hart[h].cur).sub = "-"

\* The thread t goes on at frame f.
GoOn(t, f) == stack' = [stack EXCEPT ![t][Len(stack[t])] = f]

-----------------------------------------------------------------------------
(* spinlock.c *)

holding(h, l) == spin[l].locked /\ spin[l].cpu = h

\* The hart c with interrupts off once more.
push_off(c) == [c EXCEPT !.intr = FALSE, !.noff = @ + 1,
                         !.intena = IF c.noff = 0 THEN c.intr ELSE @]

pop_off(c) == [c EXCEPT !.noff = @ - 1, !.intr = (c.noff = 1 /\ c.intena)]

\* acquire(l), then go on at pc.
acquire(h, l, pc) ==
  /\ hart' = [hart EXCEPT ![h] = push_off(@)]
  /\ GoOn(hart[h].cur, [pc |-> pc, sub |-> "swap", lk |-> l])
  /\ tpanic' = (tpanic \/ holding(h, l))
  /\ UNCHANGED <<spin, ps, ticks, slept>>

AcquireSwap(h) ==
  LET t == hart[h].cur
  IN /\ TopFrame(t).sub = "swap"
     /\ ~spin[TopFrame(t).lk].locked
     /\ spin' = [spin EXCEPT ![TopFrame(t).lk].locked = TRUE]
     /\ GoOn(t, [TopFrame(t) EXCEPT !.sub = "cpu"])
     /\ UNCHANGED <<hart, ps, ticks, slept, tpanic>>

AcquireCpu(h) ==
  LET t == hart[h].cur
  IN /\ TopFrame(t).sub = "cpu"
     /\ spin' = [spin EXCEPT ![TopFrame(t).lk].cpu = h]
     /\ GoOn(t, [TopFrame(t) EXCEPT !.sub = "-"])
     /\ UNCHANGED <<hart, ps, ticks, slept, tpanic>>

\* release(l), then go on at pc; the caller says what else changes.
release(h, l, pc) ==
  /\ spin' = [spin EXCEPT ![l].cpu = NoHart]
  /\ GoOn(hart[h].cur, [pc |-> pc, sub |-> "unlock", lk |-> l])
  /\ tpanic' = (tpanic \/ ~holding(h, l))

ReleaseUnlock(h) ==
  LET t == hart[h].cur
  IN /\ TopFrame(t).sub = "unlock"
     /\ spin' = [spin EXCEPT ![TopFrame(t).lk].locked = FALSE]
     /\ hart' = [hart EXCEPT ![h] = pop_off(@)]
     /\ tpanic' = (tpanic \/ hart[h].intr \/ hart[h].noff < 1)
     /\ GoOn(t, [TopFrame(t) EXCEPT !.sub = "-", !.lk = NoLock])
     /\ UNCHANGED <<ps, ticks, slept>>

-----------------------------------------------------------------------------
(* scheduler, sched, yield, forkret *)

SchedulerLoop(h) ==
  /\ Runs(h, "loop")
  /\ hart' = [hart EXCEPT ![h].intr = TRUE]
  /\ GoOn(h, Frame("scan"))
  /\ UNCHANGED <<spin, ps, ticks, slept, tpanic>>

\* The next process of the loop, or the loop's end.
SchedulerScan(h) ==
  /\ Runs(h, "scan")
  /\ \/ \E p \in TrapProc : acquire(h, p, "pick")
     \/ /\ GoOn(h, Frame("loop"))
        /\ UNCHANGED <<hart, spin, ps, ticks, slept, tpanic>>

\* Switch to a RUNNABLE process, the one whose lock was taken.
SchedulerPick(h) ==
  LET p == TopFrame(h).lk
  IN /\ Runs(h, "pick") /\ hart[h].cur = h
     /\ \/ /\ ps[p].state = "RUNNABLE"
           /\ ps' = [ps EXCEPT ![p].state = "RUNNING"]
           /\ hart' = [hart EXCEPT ![h].cur = p]
           /\ GoOn(h, [TopFrame(h) EXCEPT !.pc = "back"])
           /\ UNCHANGED <<spin, ticks, slept, tpanic>>
        \/ /\ ps[p].state # "RUNNABLE"
           /\ release(h, p, "scan")
           /\ UNCHANGED <<hart, ps, ticks, slept>>

SchedulerBack(h) ==
  /\ Runs(h, "back")
  /\ release(h, TopFrame(h).lk, "scan")
  /\ UNCHANGED <<hart, ps, ticks, slept>>

\* sched of p on h, with p->state set to st, to go on at pc.
sched(h, p, st, pc) ==
  /\ tpanic' = (tpanic \/ ~holding(h, p) \/ hart[h].noff # 1 \/ hart[h].intr)
  /\ ps' = [ps EXCEPT ![p].state = st, ![p].intena = hart[h].intena]
  /\ hart' = [hart EXCEPT ![h].cur = h]
  /\ GoOn(p, Frame(pc))
  /\ UNCHANGED <<spin, ticks, slept>>

\* Mutant of Resumed: intena is the hart's.
ResumedElsewhere(h, p, pc) ==
  /\ release(h, p, pc)
  /\ UNCHANGED <<hart, ps, ticks, slept>>

\* The end of sched on whatever hart p runs now, and release(&p->lock).
Resumed(h, p, pc) ==
  /\ hart' = [hart EXCEPT ![h].intena = ps[p].intena]
  /\ ps' = [ps EXCEPT ![p].intena = FALSE]
  /\ release(h, p, pc)
  /\ UNCHANGED <<ticks, slept>>

forkret(h) ==
  /\ Runs(h, "forkret")
  /\ release(h, hart[h].cur, "usertrapret")
  /\ UNCHANGED <<hart, ps, ticks, slept>>

-----------------------------------------------------------------------------
(* trap.c *)

\* Bound: a process looks at ticks before they have gone round once.
TickBound == \A p \in TrapProc : slept[p] < TickRange - 1

\* A timer interrupt, in the kernel (kerneltrap) or in user mode (usertrap).
Interrupt(h) ==
  LET t == hart[h].cur
  IN /\ TickBound
     /\ (hart[h].intr \/ Runs(h, "user"))
     /\ hart' = [hart EXCEPT ![h].intr = FALSE]
     /\ stack' = [stack EXCEPT ![t] = Append(@, Frame("devintr"))]
     /\ UNCHANGED <<spin, ps, ticks, slept, tpanic>>

\* devintr: only Hart0 counts the tick (clockintr).
devintr(h) ==
  /\ Runs(h, "devintr")
  /\ \/ /\ h = Hart0
        /\ acquire(h, Ticklock, "clockintr")
     \/ /\ h # Hart0
        /\ GoOn(hart[h].cur, Frame("tick"))
        /\ UNCHANGED <<hart, spin, ps, ticks, slept, tpanic>>

\* wakeup(&ticks) takes the p->lock of every sleeper but the caller; processes
\* asleep here sleep on ticks.
clockintr(h) ==
  /\ Runs(h, "clockintr")
  /\ ticks' = (ticks + 1) % TickRange
  /\ slept' = [p \in TrapProc |-> IF ps[p].n > 0 THEN slept[p] + 1 ELSE 0]
  /\ GoOn(hart[h].cur, [Frame("wakeup") EXCEPT !.lk = TrapProc])
  /\ UNCHANGED <<hart, spin, ps, tpanic>>

WakeSleepers(h) ==
  LET t == hart[h].cur
      left == TopFrame(t).lk \ {t}
      p == CHOOSE q \in left : TRUE
  IN /\ Runs(h, "wakeup")
     /\ \/ /\ left # {}
           /\ ~spin[p].locked
           /\ ps' = [ps EXCEPT ![p].state = IF @ = "SLEEPING" THEN "RUNNABLE" ELSE @]
           /\ GoOn(t, [TopFrame(t) EXCEPT !.lk = left \ {p}])
           /\ UNCHANGED <<hart, spin, ticks, slept, tpanic>>
        \/ /\ left = {}
           /\ release(h, Ticklock, "tick")
           /\ UNCHANGED <<hart, ps, ticks, slept>>

\* The interrupted process yields; the scheduler goes on.
TrapYield(h) ==
  /\ Runs(h, "tick")
  /\ \/ /\ hart[h].cur \in TrapProc
        /\ acquire(h, hart[h].cur, "yield")
     \/ /\ hart[h].cur = h
        /\ GoOn(h, Frame("sret"))
        /\ UNCHANGED <<hart, spin, ps, ticks, slept, tpanic>>

YieldSwitch(h) ==
  \/ Runs(h, "yield") /\ sched(h, hart[h].cur, "RUNNABLE", "yielded")
  \/ Runs(h, "yielded") /\ Resumed(h, hart[h].cur, "sret")

\* The end of kerneltrap, with sstatus as it was, or of usertrap.
TrapReturn(h) ==
  LET t == hart[h].cur
      rest == SubSeq(stack[t], 1, Len(stack[t]) - 1)
  IN /\ Runs(h, "sret")
     /\ stack' = [stack EXCEPT ![t] = rest]
     /\ hart' = [hart EXCEPT ![h].intr = (rest[Len(rest)].pc # "user")]
     /\ UNCHANGED <<spin, ps, ticks, slept, tpanic>>

\* A system call: usertrap turns interrupts on.  What a killed process does
\* instead of returning (exit) is left out: its slot starts anew.
usertrap(h) ==
  LET p == hart[h].cur
  IN /\ Runs(h, "user")
     /\ hart' = [hart EXCEPT ![h].intr = TRUE]
     /\ \/ \E n \in Naps :
             /\ ps' = [ps EXCEPT ![p].n = n]
             /\ GoOn(p, Frame("sys_sleep"))
        \/ /\ GoOn(p, Frame("sys_uptime"))
           /\ UNCHANGED ps
     /\ UNCHANGED <<spin, ticks, slept, tpanic>>

BackToUser(h) ==
  LET p == hart[h].cur
  IN /\ Runs(h, "usertrapret")
     /\ hart' = [hart EXCEPT ![h].intr = FALSE]
     /\ ps' = [ps EXCEPT ![p].killed = FALSE, ![p].n = 0, ![p].ticks0 = 0]
     /\ slept' = [slept EXCEPT ![p] = 0]
     /\ GoOn(p, Frame("user"))
     /\ UNCHANGED <<spin, ticks, tpanic>>

-----------------------------------------------------------------------------
(* sysproc.c *)

sys_uptime(h) ==
  \/ Runs(h, "sys_uptime") /\ acquire(h, Ticklock, "uptime")
  \/ /\ Runs(h, "uptime") /\ release(h, Ticklock, "usertrapret")
     /\ UNCHANGED <<hart, ps, ticks, slept>>

SleepStart(h) ==
  LET p == hart[h].cur
  IN \/ Runs(h, "sys_sleep") /\ acquire(h, Ticklock, "ticks0")
     \/ /\ Runs(h, "ticks0")
        /\ ps' = [ps EXCEPT ![p].ticks0 = ticks]
        /\ slept' = [slept EXCEPT ![p] = 0]
        /\ GoOn(p, Frame("while"))
        /\ UNCHANGED <<hart, spin, ticks, tpanic>>

\* Mutant of Elapsed: it is not reduced.
ElapsedSigned(p) == IF ticks < ps[p].ticks0 THEN 0 ELSE ticks - ps[p].ticks0

\* ticks - ticks0, unsigned.
Elapsed(p) == (ticks + TickRange - ps[p].ticks0) % TickRange

\* The loop of sys_sleep; killed takes p->lock by itself.
SleepWhile(h) ==
  LET p == hart[h].cur
  IN /\ Runs(h, "while")
     /\ \/ /\ Elapsed(p) >= ps[p].n
           /\ release(h, Ticklock, "slept")
           /\ UNCHANGED <<hart, ps, ticks, slept>>
        \/ /\ Elapsed(p) < ps[p].n /\ ps[p].killed /\ ~spin[p].locked
           /\ release(h, Ticklock, "usertrapret")
           /\ UNCHANGED <<hart, ps, ticks, slept>>
        \/ /\ Elapsed(p) < ps[p].n /\ ~ps[p].killed /\ ~spin[p].locked
           /\ acquire(h, p, "sleep")

\* sleep(&ticks, &tickslock), with p->lock held.
TickSleep(h) ==
  LET p == hart[h].cur
  IN \/ /\ Runs(h, "sleep")
        /\ release(h, Ticklock, "sched")
        /\ UNCHANGED <<hart, ps, ticks, slept>>
     \/ Runs(h, "sched") /\ sched(h, p, "SLEEPING", "awake")
     \/ Runs(h, "awake") /\ Resumed(h, p, "relock")
     \/ Runs(h, "relock") /\ acquire(h, Ticklock, "while")

\* sys_sleep returns 0.
SleepReturns(h) ==
  /\ Runs(h, "slept")
  /\ GoOn(hart[h].cur, Frame("usertrapret"))
  /\ UNCHANGED <<hart, spin, ps, ticks, slept, tpanic>>

\* kill, from anywhere.
TrapKill(p) ==
  /\ ~spin[p].locked /\ ~ps[p].killed /\ ps[p].n # 0
  /\ ps' = [ps EXCEPT ![p].killed = TRUE,
                      ![p].state = IF @ = "SLEEPING" THEN "RUNNABLE" ELSE @]
  /\ UNCHANGED <<hart, stack, spin, ticks, slept, tpanic>>

TrapNext ==
  \/ \E h \in TrapHart :
       \/ AcquireSwap(h) \/ AcquireCpu(h) \/ ReleaseUnlock(h)
       \/ SchedulerLoop(h) \/ SchedulerScan(h) \/ SchedulerPick(h) \/ SchedulerBack(h)
       \/ forkret(h) \/ Interrupt(h) \/ devintr(h) \/ clockintr(h) \/ WakeSleepers(h)
       \/ TrapYield(h) \/ YieldSwitch(h) \/ TrapReturn(h) \/ usertrap(h) \/ BackToUser(h)
       \/ sys_uptime(h) \/ SleepStart(h) \/ SleepWhile(h) \/ TickSleep(h) \/ SleepReturns(h)
  \/ \E p \in TrapProc : TrapKill(p)

-----------------------------------------------------------------------------
(* Properties *)

\* No lock is taken twice by a hart, given back by another, or kept into the
\* scheduler, no matter where interrupts come and on which hart a thread goes on
\* (none of the panics of acquire, release, pop_off and sched); a handler always
\* runs with interrupts off, so it is never interrupted itself; and a system call
\* that holds no lock has them on, so that a waiting hart can be interrupted.
\* (Not so the first usertrapret of a process: when the scheduler comes from a
\* process that yielded in a handler, forkret is left with interrupts off.)
InterruptsDisciplined ==
  /\ ~tpanic
  /\ \A t \in Thread : Len(stack[t]) <= 2
  /\ \A h \in TrapHart :
       /\ Len(stack[hart[h].cur]) = 2 => ~hart[h].intr
       /\ hart[h].noff > 0 => ~hart[h].intr
       /\ \A pc \in {"sys_sleep", "sys_uptime", "relock", "slept"} : Runs(h, pc) => hart[h].intr

\* sys_sleep(n) returns 0 only after n ticks, also when ticks wraps around; and a
\* process asleep has a tick to wait for, or the clock is about to wake it.
SleepsItsTicks ==
  \A p \in TrapProc :
    /\ TopFrame(p).pc = "slept" => slept[p] >= ps[p].n
    /\ ps[p].state = "SLEEPING" =>
         \/ slept[p] < ps[p].n
         \/ \E t \in Thread : TopFrame(t).pc = "wakeup" /\ p \in TopFrame(t).lk

=============================================================================
