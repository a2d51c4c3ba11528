----------------------------- MODULE TrapProofs -----------------------------
(***************************************************************************)
(* Spinlocks, interrupts and the clock for any number of harts and         *)
(* processes and any range of ticks: no panic of acquire, release, pop_off *)
(* or sched is reached, handlers run with interrupts off, and sys_sleep    *)
(* returns after its ticks.                                                *)
(***************************************************************************)
EXTENDS Trap, Integers, TLAPS

\* Leaves are tried with Zenon first, which is quick to give up.
USE ZenonT(3), SMTT(30)

TrapSpec == TrapInit /\ [][TrapNext]_trapVars

-----------------------------------------------------------------------------
(* The inductive invariant *)

ProcPcs == {"forkret", "usertrapret", "user", "sys_sleep", "sys_uptime", "uptime", "ticks0",
            "while", "sleep", "sched", "awake", "relock", "slept"}
SchedulerPcs == {"loop", "scan", "pick", "back"}
HandlerPcs == {"devintr", "clockintr", "wakeup", "tick", "yield", "yielded", "sret"}

\* Where a handler may find the thread it interrupts.
Interruptible == {"loop", "scan", "usertrapret", "user", "sys_sleep", "sys_uptime", "relock", "slept"}

\* Where a thread holds, or is about to take, tickslock, the p->lock of its own
\* process, or the p->lock of the process it looks at.
TicksPcs == {"clockintr", "wakeup", "uptime", "ticks0", "while", "sleep"}
OwnPcs == {"yield", "yielded", "sched", "awake", "forkret", "sleep"}
PickPcs == {"pick", "back"}

FrameSet == [pc : ProcPcs \union SchedulerPcs \union HandlerPcs,
             sub : {"-", "swap", "cpu", "unlock"},
             lk : LockId \union {NoLock} \union SUBSET TrapProc]

HartSet == [intr : BOOLEAN, noff : Nat, intena : BOOLEAN, cur : Thread]
SpinSet == [locked : BOOLEAN, cpu : TrapHart \union {NoHart}]
PsSet == [state : {"RUNNABLE", "RUNNING", "SLEEPING"}, killed : BOOLEAN, intena : BOOLEAN,
          ticks0 : 0..(TickRange - 1), n : Nat]

TrapTypes ==
  /\ hart \in [TrapHart -> HartSet]
  /\ stack \in [Thread -> Seq(FrameSet)]
  /\ spin \in [LockId -> SpinSet]
  /\ ps \in [TrapProc -> PsSet]
  /\ ticks \in 0..(TickRange - 1)
  /\ slept \in [TrapProc -> Nat]
  /\ tpanic = FALSE

\* The stacks: of a process or a scheduler, with at most one handler, which
\* interrupted it where no lock is held.
StackOK(t, s) ==
  /\ Len(s) \in 1..2
  /\ s[1].pc \in (IF t \in TrapProc THEN ProcPcs ELSE SchedulerPcs)
  /\ Len(s) = 2 => /\ s[1].pc \in Interruptible /\ s[1].sub = "-"
                   /\ s[2].pc \in HandlerPcs
                   /\ s[2].pc \in {"yield", "yielded"} => t \in TrapProc

Last(s) == s[Len(s)]

FrameOK(t, f) ==
  /\ f.pc \in PickPcs => f.lk \in TrapProc
  /\ f.pc = "wakeup" => f.lk \in SUBSET TrapProc /\ f.sub = "-"
  /\ f.pc \in {"back", "yielded", "awake", "forkret", "user", "devintr"} => f.sub = "-"
  /\ f.pc = "sleep" => f.lk # Ticklock
  /\ f.pc = "sched" => f.sub \in {"-", "unlock"}

Stacks == \A t \in Thread : StackOK(t, stack[t]) /\ FrameOK(t, Last(stack[t]))

\* Who runs where: a process runs on one hart at most, whose scheduler waits for
\* it in swtch; the others are parked where sched or fork left them.
Placed ==
  /\ \A h \in TrapHart : hart[h].cur = h \/ hart[h].cur \in TrapProc
  /\ \A h, k \in TrapHart : hart[h].cur = hart[k].cur => h = k
  /\ \A p \in TrapProc : ps[p].state = "RUNNING" <=> \E h \in TrapHart : hart[h].cur = p
  /\ \A h \in TrapHart : hart[h].cur # h =>
       Len(stack[h]) = 1 /\ stack[h][1] = [pc |-> "back", sub |-> "-", lk |-> hart[h].cur]
  /\ \A p \in TrapProc : ps[p].state # "RUNNING" => Last(stack[p]).pc \in {"forkret", "awake", "yielded"}

\* The locks of a thread t whose last frame is f, all of them when sub is "-".
Held(t, f) == {l \in LockId : \/ l = Ticklock /\ f.pc \in TicksPcs
                              \/ l = t /\ f.pc \in OwnPcs
                              \/ l = f.lk /\ f.pc \in PickPcs}

\* Those whose word is set, and those marked with the hart of t.
Taken(t, f) == {l \in LockId : \/ l \in Held(t, f) /\ ~(f.sub = "swap" /\ l = f.lk)
                               \/ f.sub = "unlock" /\ l = f.lk}
Marked(t, f) == {l \in Held(t, f) : ~(f.sub \in {"swap", "cpu"} /\ l = f.lk)}

\* What acquire and release are about.
SubOK(t, f) ==
  /\ f.sub \in {"swap", "cpu"} => f.lk \in Held(t, f)
  /\ f.sub = "unlock" => f.lk \in LockId /\ f.lk \notin Held(t, f)

TakenBy(h) == Taken(hart[h].cur, Last(stack[hart[h].cur]))
MarkedBy(h) == Marked(hart[h].cur, Last(stack[hart[h].cur]))

\* A lock is taken when one hart has it, and only that hart is in lk->cpu.
Locks ==
  /\ \A l \in LockId : spin[l].locked <=> \E h \in TrapHart : l \in TakenBy(h)
  /\ \A l \in LockId, h, k \in TrapHart : l \in TakenBy(h) /\ l \in TakenBy(k) => h = k
  /\ \A l \in LockId, h \in TrapHart : spin[l].cpu = h <=> l \in MarkedBy(h)

\* noff of the hart that executes f.
Depth(f) ==
  (IF f.pc = "sleep" THEN 2 ELSE IF f.pc \in TicksPcs \union OwnPcs \union PickPcs THEN 1 ELSE 0)
  + (IF f.sub = "unlock" THEN 1 ELSE 0)

\* Where sstatus.SIE is off and on with no lock held, and what intena recalls.
IntrOK(t, c, s) ==
  /\ SubOK(t, Last(s))
  /\ c.noff = Depth(Last(s))
  /\ c.noff > 0 => ~c.intr
  /\ Len(s) = 2 => ~c.intr
  /\ Last(s).pc = "user" => ~c.intr
  /\ Last(s).pc \in {"sys_sleep", "sys_uptime", "relock", "slept"} /\ c.noff = 0 => c.intr
  /\ c.noff > 0 /\ Len(s) = 2 /\ Last(s).pc # "yielded" => ~c.intena
  /\ c.noff > 0 /\ Len(s) = 1 /\ t \in TrapProc /\ Last(s).pc \notin {"awake", "forkret", "usertrapret"}
       => c.intena

Nesting ==
  /\ \A h \in TrapHart : IntrOK(hart[h].cur, hart[h], stack[hart[h].cur])
  /\ \A p \in TrapProc : /\ Last(stack[p]).pc = "awake" => ps[p].intena
                         /\ Last(stack[p]).pc = "yielded" => ~ps[p].intena

\* Only Hart0 counts, and does so before ticks can have gone round.
Counting ==
  /\ \A h \in TrapHart : Last(stack[hart[h].cur]).pc = "clockintr" => h = Hart0
  /\ \A p \in TrapProc : slept[p] <= TickRange - 1
  /\ Last(stack[hart[Hart0].cur]).pc \in {"devintr", "clockintr"} => TickBound

Waking(p) == \E t \in Thread : Last(stack[t]).pc = "wakeup" /\ p \in Last(stack[t]).lk

\* slept is ticks - ticks0 in the loop of sys_sleep, and decides it.
SleepOK(p) ==
  /\ stack[p][1].pc \in {"while", "sleep", "sched", "awake", "relock", "slept"} /\ ps[p].n > 0 =>
       ticks = ps[p].ticks0 + slept[p] \/ ticks = ps[p].ticks0 + slept[p] - TickRange
  /\ stack[p][1].pc = "slept" => slept[p] >= ps[p].n
  /\ stack[p][1].pc = "sleep" => slept[p] < ps[p].n
  /\ stack[p][1].pc = "sched" \/ ps[p].state = "SLEEPING" => slept[p] < ps[p].n \/ Waking(p)

Sleeping == \A p \in TrapProc : SleepOK(p)

TrapInv ==
  TrapTypes /\ Stacks /\ Placed /\ Locks /\ Nesting /\ Counting /\ Sleeping

-----------------------------------------------------------------------------
(* Threads and their stacks *)

\* A frame says of what kind of thread it is the last.
LEMMA Classes ==
  ASSUME TrapTypes, Stacks, NEW t \in Thread
  PROVE  LET f == Last(stack[t])
         IN /\ stack[t] \in Seq(FrameSet) /\ f \in FrameSet
            /\ Len(stack[t]) = 1 \/ Len(stack[t]) = 2
            /\ f.pc \in HandlerPcs <=> Len(stack[t]) = 2
            /\ f.pc \in ProcPcs <=> (Len(stack[t]) = 1 /\ t \in TrapProc)
            /\ f.pc \in SchedulerPcs <=> (Len(stack[t]) = 1 /\ t \notin TrapProc)
            /\ Len(stack[t]) = 1 => stack[t][1] = f
            /\ f.pc \in {"yield", "yielded"} => t \in TrapProc
<1> DEFINE s == stack[t]
<1>1. s \in Seq(FrameSet) /\ StackOK(t, s)
  BY DEF TrapTypes, Stacks
<1> HIDE DEF s
<1>2. Len(s) = 1 \/ Len(s) = 2
  BY <1>1 DEF StackOK
<1>3. CASE Len(s) = 1
  <2>1. Last(s) = s[1] /\ s[1] \in FrameSet
    BY <1>1, <1>3 DEF Last
  <2>2. s[1].pc \in (IF t \in TrapProc THEN ProcPcs ELSE SchedulerPcs)
    BY <1>1 DEF StackOK
  <2> QED
    BY <1>1, <1>3, <2>1, <2>2 DEF ProcPcs, SchedulerPcs, HandlerPcs, s
<1>4. CASE Len(s) = 2
  <2>1. Last(s) = s[2] /\ s[2] \in FrameSet
    BY <1>1, <1>4 DEF Last
  <2>2. s[2].pc \in HandlerPcs /\ (s[2].pc \in {"yield", "yielded"} => t \in TrapProc)
    BY <1>1, <1>4 DEF StackOK
  <2> QED
    BY <1>1, <1>4, <2>1, <2>2 DEF ProcPcs, SchedulerPcs, HandlerPcs, s
<1> QED
  BY <1>2, <1>3, <1>4

\* Going on replaces the last frame of one thread.
LEMMA GoOnStack ==
  ASSUME TrapTypes, Stacks, NEW t \in Thread, NEW f \in FrameSet, GoOn(t, f)
  PROVE  /\ stack' \in [Thread -> Seq(FrameSet)]
         /\ \A u \in Thread : u # t => stack'[u] = stack[u]
         /\ Len(stack'[t]) = Len(stack[t]) /\ Last(stack'[t]) = f
         /\ stack'[t][1] = IF Len(stack[t]) = 1 THEN f ELSE stack[t][1]
         /\ Len(stack[t]) = 2 => stack'[t][2] = f
<1> DEFINE s == stack[t]
           r == [s EXCEPT ![Len(s)] = f]
<1>1. s \in Seq(FrameSet) /\ (Len(s) = 1 \/ Len(s) = 2)
  BY Classes
<1>2. stack' = [stack EXCEPT ![t] = r] /\ stack \in [Thread -> Seq(FrameSet)]
  BY DEF GoOn, TrapTypes
<1> HIDE DEF s
<1>3. /\ r \in Seq(FrameSet) /\ Len(r) = Len(s) /\ r[Len(s)] = f
      /\ r[1] = IF Len(s) = 1 THEN f ELSE s[1]
      /\ Len(s) = 2 => r[2] = f
  BY <1>1
<1> HIDE DEF r
<1>4. stack'[t] = r /\ \A u \in Thread : u # t => stack'[u] = stack[u]
  BY <1>2
<1>5. stack' \in [Thread -> Seq(FrameSet)]
  BY <1>2, <1>3
<1> QED
  BY <1>3, <1>4, <1>5 DEF Last, s

\* A stack stays well formed when its last frame goes on as one of its kind.
LEMMA StackGoesOn ==
  ASSUME NEW t, NEW s, NEW r, NEW g, StackOK(t, s), Len(r) = Len(s),
         r[1] = IF Len(s) = 1 THEN g ELSE s[1],
         Len(s) = 2 => r[2] = g,
         Len(s) = 1 => g.pc \in (IF t \in TrapProc THEN ProcPcs ELSE SchedulerPcs),
         Len(s) = 2 => g.pc \in HandlerPcs /\ (g.pc \in {"yield", "yielded"} => t \in TrapProc)
  PROVE  StackOK(t, r)
<1>1. Len(s) = 1 \/ Len(s) = 2
  BY DEF StackOK
<1>2. CASE Len(s) = 1
  BY <1>2 DEF StackOK
<1>3. CASE Len(s) = 2
  BY <1>3 DEF StackOK
<1> QED
  BY <1>1, <1>2, <1>3

\* The thread that a hart executes, and no other hart does.
LEMMA Current ==
  ASSUME TrapInv, NEW h \in TrapHart
  PROVE  /\ hart[h].cur \in Thread
         /\ hart[h] \in HartSet
         /\ \A k \in TrapHart : k # h => hart[k].cur # hart[h].cur
         /\ \A k \in TrapHart : hart[k].cur # k => k # hart[h].cur
         /\ hart[h].cur \notin TrapProc => hart[h].cur = h
         /\ hart[h].cur \in TrapProc => ps[hart[h].cur].state = "RUNNING"
  BY TrapAssumption DEF TrapInv, TrapTypes, HartSet, Placed, Thread

-----------------------------------------------------------------------------
(* Steps in which only the thread that h executes goes on *)

Alone(h) ==
  /\ \A u \in Thread : u # hart[h].cur => stack'[u] = stack[u]
  /\ \A k \in TrapHart : hart'[k].cur = hart[k].cur /\ (k # h => hart'[k] = hart[k])

\* The other stacks stay as they were.
LEMMA AloneStacks ==
  ASSUME TrapInv, NEW h \in TrapHart, Alone(h),
         StackOK(hart[h].cur, stack'[hart[h].cur]),
         FrameOK(hart[h].cur, Last(stack'[hart[h].cur]))
  PROVE  Stacks'
  BY DEF TrapInv, Stacks, Alone

\* Nobody moves.
LEMMA AlonePlaced ==
  ASSUME TrapInv, NEW h \in TrapHart, Alone(h),
         \A p \in TrapProc : ps'[p].state = "RUNNING" <=> ps[p].state = "RUNNING"
  PROVE  Placed'
<1>1. \A k \in TrapHart : hart'[k].cur # k =>
        Len(stack'[k]) = 1 /\ stack'[k][1] = [pc |-> "back", sub |-> "-", lk |-> hart'[k].cur]
  <2> SUFFICES ASSUME NEW k \in TrapHart, hart'[k].cur # k
               PROVE  Len(stack'[k]) = 1
                      /\ stack'[k][1] = [pc |-> "back", sub |-> "-", lk |-> hart'[k].cur]
    OBVIOUS
  <2>1. stack'[k] = stack[k] /\ hart'[k].cur = hart[k].cur
    BY Current DEF Alone, Thread
  <2> QED
    BY <2>1 DEF TrapInv, Placed
<1>2. \A p \in TrapProc : ps'[p].state # "RUNNING" => Last(stack'[p]).pc \in {"forkret", "awake", "yielded"}
  BY Current DEF TrapInv, Placed, Alone, Thread
<1>3. \A k \in TrapHart : hart'[k].cur = hart[k].cur
  BY DEF Alone
<1> QED
  BY <1>1, <1>2, <1>3 DEF TrapInv, Placed

\* Interrupts on the other harts are as they were.
LEMMA AloneNesting ==
  ASSUME TrapInv, NEW h \in TrapHart, Alone(h),
         IntrOK(hart[h].cur, hart'[h], stack'[hart[h].cur]),
         \A p \in TrapProc : p # hart[h].cur => ps'[p].intena = ps[p].intena,
         hart[h].cur \in TrapProc =>
           /\ Last(stack'[hart[h].cur]).pc = "awake" => ps'[hart[h].cur].intena
           /\ Last(stack'[hart[h].cur]).pc = "yielded" => ~ps'[hart[h].cur].intena
  PROVE  Nesting'
<1>1. \A k \in TrapHart : IntrOK(hart'[k].cur, hart'[k], stack'[hart'[k].cur])
  BY Current DEF TrapInv, Nesting, Alone
<1>2. \A p \in TrapProc : /\ Last(stack'[p]).pc = "awake" => ps'[p].intena
                          /\ Last(stack'[p]).pc = "yielded" => ~ps'[p].intena
  BY DEF TrapInv, Nesting, Alone, Thread
<1> QED
  BY <1>1, <1>2 DEF Nesting

\* The locks of the other harts are as they were.
LEMMA AloneTaken ==
  ASSUME TrapInv, NEW h \in TrapHart, Alone(h)
  PROVE  /\ \A k \in TrapHart : k # h => TakenBy(k)' = TakenBy(k) /\ MarkedBy(k)' = MarkedBy(k)
         /\ TakenBy(h)' = Taken(hart[h].cur, Last(stack'[hart[h].cur]))
         /\ MarkedBy(h)' = Marked(hart[h].cur, Last(stack'[hart[h].cur]))
  BY Current DEF TakenBy, MarkedBy, Alone

\* A step that neither takes a lock nor gives one back.
LEMMA AloneLocks ==
  ASSUME TrapInv, NEW h \in TrapHart, Alone(h), spin' = spin,
         Taken(hart[h].cur, Last(stack'[hart[h].cur])) = TakenBy(h),
         Marked(hart[h].cur, Last(stack'[hart[h].cur])) = MarkedBy(h)
  PROVE  Locks'
<1>1. \A k \in TrapHart : TakenBy(k)' = TakenBy(k) /\ MarkedBy(k)' = MarkedBy(k)
  BY AloneTaken
<1> QED
  BY <1>1 DEF TrapInv, Locks

\* A step that does not count a tick.
LEMMA AloneCounting ==
  ASSUME TrapInv, NEW h \in TrapHart, Alone(h), slept' \in [TrapProc -> Nat],
         \A p \in TrapProc : slept'[p] <= slept[p],
         Last(stack'[hart[h].cur]).pc = "clockintr" => h = Hart0,
         Last(stack'[hart[h].cur]).pc \in {"devintr", "clockintr"} => TickBound
  PROVE  Counting'
<1> DEFINE top(k) == Last(stack[hart[k].cur])
<1>1. \A k \in TrapHart : k # h => stack'[hart'[k].cur] = stack[hart[k].cur]
  BY Current DEF Alone
<1>2. hart'[h].cur = hart[h].cur
  BY DEF Alone
<1>3. \A k \in TrapHart : Last(stack'[hart'[k].cur]).pc = "clockintr" => k = Hart0
  BY <1>1, <1>2 DEF TrapInv, Counting
<1>4. TickRange \in Nat /\ slept \in [TrapProc -> Nat]
  BY TrapAssumption DEF TrapInv, TrapTypes
<1>5. \A p \in TrapProc : slept'[p] <= TickRange - 1
  BY <1>4 DEF TrapInv, Counting
<1>6. TickBound => TickBound'
  BY <1>4 DEF TickBound
<1>7. Last(stack'[hart'[Hart0].cur]).pc \in {"devintr", "clockintr"} => TickBound
  BY <1>1, <1>2, TrapAssumption DEF TrapInv, Counting
<1> QED
  BY <1>3, <1>5, <1>6, <1>7 DEF Counting

\* A step of a thread that has no other process to wake leaves the others
\* asleep, or about to be woken.
LEMMA AloneSleeping ==
  ASSUME TrapInv, NEW h \in TrapHart, Alone(h), ticks' = ticks,
         Last(stack[hart[h].cur]).pc = "wakeup" => Last(stack[hart[h].cur]).lk \subseteq {hart[h].cur},
         \A p \in TrapProc : p # hart[h].cur =>
           slept'[p] = slept[p] /\ ps'[p].n = ps[p].n /\ ps'[p].ticks0 = ps[p].ticks0
           /\ ps'[p].state = ps[p].state,
         \A p \in TrapProc : p = hart[h].cur => SleepOK(p)'
  PROVE  Sleeping'
<1>1. \A p \in TrapProc : p # hart[h].cur /\ Waking(p) => Waking(p)'
  BY DEF Waking, Alone
<1>2. ASSUME NEW p \in TrapProc, p # hart[h].cur
      PROVE  SleepOK(p)'
  <2>1. stack'[p] = stack[p]
    BY <1>2 DEF Alone, Thread
  <2>2. SleepOK(p)
    BY DEF TrapInv, Sleeping
  <2> QED
    BY <1>1, <1>2, <2>1, <2>2 DEF SleepOK
<1> QED
  BY <1>2 DEF Sleeping

\* A handler does not touch what sys_sleep of the thread below it relies on.
LEMMA HandlerSleeping ==
  ASSUME TrapInv, NEW h \in TrapHart, NEW p \in TrapProc, p = hart[h].cur,
         Len(stack[p]) = 2, stack'[p][1] = stack[p][1], UNCHANGED <<ticks, slept>>,
         ps'[p].n = ps[p].n, ps'[p].ticks0 = ps[p].ticks0, ps'[p].state # "SLEEPING"
  PROVE  SleepOK(p)'
<1>1. SleepOK(p) /\ StackOK(p, stack[p])
  BY DEF TrapInv, Sleeping, Stacks, Thread
<1>2. stack[p][1].pc \in Interruptible
  BY <1>1 DEF StackOK
<1>3. stack[p][1].pc # "sched"
  BY <1>2 DEF Interruptible
<1> QED
  BY <1>1, <1>3 DEF SleepOK

\* The hart h goes on as c.
HartBecomes(h, c) == hart' = [hart EXCEPT ![h] = c]

\* The other harts stay as they were.
LEMMA HartSets ==
  ASSUME TrapTypes, NEW h \in TrapHart, NEW c \in HartSet, c.cur = hart[h].cur,
         HartBecomes(h, c)
  PROVE  /\ hart' \in [TrapHart -> HartSet] /\ hart'[h] = c
         /\ \A k \in TrapHart : hart'[k].cur = hart[k].cur /\ (k # h => hart'[k] = hart[k])
  BY DEF TrapTypes, HartBecomes

\* What a hart and the thread it executes are before and after they go on.
LEMMA FrameStep ==
  ASSUME TrapInv, NEW h \in TrapHart, NEW t, t = hart[h].cur, NEW g \in FrameSet, GoOn(t, g),
         NEW c \in HartSet, c.cur = t, HartBecomes(h, c)
  PROVE  /\ Alone(h)
         /\ hart' \in [TrapHart -> HartSet] /\ hart'[h] = c
         /\ stack' \in [Thread -> Seq(FrameSet)]
         /\ Len(stack'[t]) = Len(stack[t]) /\ Last(stack'[t]) = g
         /\ stack'[t][1] = IF Len(stack[t]) = 1 THEN g ELSE stack[t][1]
         /\ Len(stack[t]) = 2 => stack'[t][2] = g
<1>1. t \in Thread /\ TrapTypes /\ Stacks
  BY Current DEF TrapInv
<1>2. /\ stack' \in [Thread -> Seq(FrameSet)]
      /\ \A u \in Thread : u # t => stack'[u] = stack[u]
      /\ Len(stack'[t]) = Len(stack[t]) /\ Last(stack'[t]) = g
      /\ stack'[t][1] = IF Len(stack[t]) = 1 THEN g ELSE stack[t][1]
      /\ Len(stack[t]) = 2 => stack'[t][2] = g
  BY <1>1, GoOnStack
<1>3. /\ hart' \in [TrapHart -> HartSet] /\ hart'[h] = c
      /\ \A k \in TrapHart : hart'[k].cur = hart[k].cur /\ (k # h => hart'[k] = hart[k])
  BY <1>1, HartSets
<1> QED
  BY <1>2, <1>3 DEF Alone

\* What is known of the thread that a hart executes.
LEMMA Before ==
  ASSUME TrapInv, NEW h \in TrapHart, NEW t, t = hart[h].cur, NEW f, f = Last(stack[t])
  PROVE  /\ t \in Thread /\ f \in FrameSet /\ hart[h] \in HartSet
         /\ StackOK(t, stack[t]) /\ FrameOK(t, f) /\ IntrOK(t, hart[h], stack[t]) /\ SubOK(t, f)
         /\ f.pc \in HandlerPcs <=> Len(stack[t]) = 2
         /\ f.pc \in ProcPcs <=> (Len(stack[t]) = 1 /\ t \in TrapProc)
         /\ f.pc \in SchedulerPcs <=> (Len(stack[t]) = 1 /\ t \notin TrapProc)
         /\ Len(stack[t]) = 1 \/ Len(stack[t]) = 2
         /\ Len(stack[t]) = 1 => stack[t][1] = f
         /\ f.pc \in {"yield", "yielded"} => t \in TrapProc
         /\ t \in TrapProc => ps[t].state = "RUNNING" /\ SleepOK(t)
         /\ TakenBy(h) = Taken(t, f) /\ MarkedBy(h) = Marked(t, f)
<1>1. t \in Thread /\ TrapTypes /\ Stacks /\ hart[h] \in HartSet
  BY Current DEF TrapInv
<1>2. StackOK(t, stack[t]) /\ FrameOK(t, f)
  BY <1>1 DEF Stacks
<1>3. IntrOK(t, hart[h], stack[t]) /\ SubOK(t, f)
  BY DEF TrapInv, Nesting, IntrOK
<1>4. t \in TrapProc => ps[t].state = "RUNNING" /\ SleepOK(t)
  BY Current DEF TrapInv, Sleeping
<1>5. TakenBy(h) = Taken(t, f) /\ MarkedBy(h) = Marked(t, f)
  BY DEF TakenBy, MarkedBy
<1> QED
  BY <1>1, <1>2, <1>3, <1>4, <1>5, Classes

-----------------------------------------------------------------------------
(* acquire *)

\* push_off turns interrupts off and counts.
LEMMA PushOff ==
  ASSUME NEW c \in HartSet
  PROVE  /\ push_off(c) \in HartSet
         /\ push_off(c).cur = c.cur /\ push_off(c).intr = FALSE /\ push_off(c).noff = c.noff + 1
         /\ push_off(c).intena = IF c.noff = 0 THEN c.intr ELSE c.intena
<1> DEFINE e == IF c.noff = 0 THEN c.intr ELSE c.intena
<1>1. c.intr \in BOOLEAN /\ c.noff \in Nat /\ c.intena \in BOOLEAN /\ c.cur \in Thread
  BY DEF HartSet
<1>2. e \in BOOLEAN
  BY <1>1
<1>3. push_off(c) = [c EXCEPT !.intr = FALSE, !.noff = c.noff + 1, !.intena = e]
  BY DEF push_off, HartSet
<1> HIDE DEF e
<1>4. push_off(c) = [intr |-> FALSE, noff |-> c.noff + 1, intena |-> e, cur |-> c.cur]
  BY <1>3 DEF HartSet
<1>5. push_off(c) \in HartSet
  BY <1>1, <1>2, <1>4 DEF HartSet
<1> QED
  BY <1>4, <1>5 DEF e

\* The calls of acquire: in a thread t at the first pc, of l, on the way to the
\* second.
AcquireCase(h, t, from, l, pc) ==
  \/ from = "scan" /\ pc = "pick" /\ l \in TrapProc
  \/ from = "devintr" /\ pc = "clockintr" /\ l = Ticklock /\ h = Hart0
  \/ from = "tick" /\ pc = "yield" /\ l = t /\ t \in TrapProc
  \/ from = "sys_uptime" /\ pc = "uptime" /\ l = Ticklock
  \/ from = "sys_sleep" /\ pc = "ticks0" /\ l = Ticklock
  \/ from = "while" /\ pc = "sleep" /\ l = t /\ t \in TrapProc /\ slept[t] < ps[t].n
  \/ from = "relock" /\ pc = "while" /\ l = Ticklock

\* acquire adds one lock to those of the thread; it is not taken yet.
LEMMA AcquireFrames ==
  ASSUME NEW h, NEW t \in Thread, NEW f \in FrameSet, NEW l \in LockId, NEW pc,
         f.sub = "-", AcquireCase(h, t, f.pc, l, pc), t \in TrapProc \/ f.pc \notin ProcPcs
  PROVE  LET g == [pc |-> pc, sub |-> "swap", lk |-> l]
         IN /\ g \in FrameSet /\ l \notin Held(t, f) /\ l \in Held(t, g)
            /\ Taken(t, g) = Taken(t, f) /\ Marked(t, g) = Marked(t, f)
            /\ Depth(g) = Depth(f) + 1 /\ Depth(f) \in Nat
            /\ FrameOK(t, g) /\ SubOK(t, g)
<1> DEFINE g == [pc |-> pc, sub |-> "swap", lk |-> l]
<1>0. l \in LockId /\ Ticklock \notin TrapProc /\ (t \in TrapProc => t # Ticklock)
  BY TrapAssumption
<1>1. g \in FrameSet
  BY <1>0 DEF AcquireCase, FrameSet, HandlerPcs, ProcPcs, SchedulerPcs
<1>2. \A m \in LockId : m \in Held(t, g) <=> (m \in Held(t, f) \/ m = l)
  BY <1>0 DEF AcquireCase, Held, TicksPcs, OwnPcs, PickPcs, ProcPcs
<1>3. l \notin Held(t, f)
  BY <1>0 DEF AcquireCase, Held, TicksPcs, OwnPcs, PickPcs, ProcPcs
<1>4. Depth(g) = Depth(f) + 1 /\ Depth(f) \in Nat
  BY DEF AcquireCase, Depth, TicksPcs, OwnPcs, PickPcs
<1>5. FrameOK(t, g)
  BY <1>0 DEF AcquireCase, FrameOK, PickPcs
<1>6. g.sub = "swap" /\ g.lk = l
  OBVIOUS
<1> HIDE DEF g
<1>7. \A m : m \in Held(t, f) \/ m \in Held(t, g) => m \in LockId
  BY DEF Held
<1>8. Taken(t, g) = Taken(t, f)
  BY <1>2, <1>3, <1>6, <1>7 DEF Taken
<1>9. Marked(t, g) = Marked(t, f)
  BY <1>2, <1>3, <1>6, <1>7 DEF Marked
<1>10. SubOK(t, g)
  BY <1>2, <1>6 DEF SubOK
<1>11. l \in Held(t, g)
  BY <1>2
<1> QED
  BY <1>1, <1>3, <1>4, <1>5, <1>8, <1>9, <1>10, <1>11 DEF g

\* acquire keeps the invariant: it does not panic, and the interrupt state it
\* saves in intena is the one that the nesting calls for.
LEMMA AcquireKeeps ==
  ASSUME TrapInv, NEW h \in TrapHart, NEW l \in LockId, NEW pc, acquire(h, l, pc),
         Last(stack[hart[h].cur]).sub = "-",
         AcquireCase(h, hart[h].cur, Last(stack[hart[h].cur]).pc, l, pc)
  PROVE  TrapInv'
<1>0. PICK t : t = hart[h].cur
  OBVIOUS
<1>1. PICK f : f = Last(stack[t])
  OBVIOUS
<1>2. PICK g : g = [pc |-> pc, sub |-> "swap", lk |-> l]
  OBVIOUS
<1>3. /\ t \in Thread /\ f \in FrameSet /\ hart[h] \in HartSet
      /\ StackOK(t, stack[t]) /\ IntrOK(t, hart[h], stack[t])
      /\ f.pc \in HandlerPcs <=> Len(stack[t]) = 2
      /\ f.pc \in ProcPcs <=> (Len(stack[t]) = 1 /\ t \in TrapProc)
      /\ f.pc \in SchedulerPcs <=> (Len(stack[t]) = 1 /\ t \notin TrapProc)
      /\ Len(stack[t]) = 1 \/ Len(stack[t]) = 2
      /\ Len(stack[t]) = 1 => stack[t][1] = f
      /\ t \in TrapProc => ps[t].state = "RUNNING" /\ SleepOK(t)
      /\ TakenBy(h) = Taken(t, f) /\ MarkedBy(h) = Marked(t, f)
  BY <1>0, <1>1, Before
<1>4. f.sub = "-" /\ AcquireCase(h, t, f.pc, l, pc)
  BY <1>0, <1>1
<1>5. /\ g \in FrameSet /\ l \notin Held(t, f)
      /\ Taken(t, g) = Taken(t, f) /\ Marked(t, g) = Marked(t, f)
      /\ Depth(g) = Depth(f) + 1 /\ Depth(f) \in Nat
      /\ FrameOK(t, g) /\ SubOK(t, g)
  BY <1>2, <1>3, <1>4, AcquireFrames
<1>6. GoOn(t, g) /\ UNCHANGED <<spin, ps, ticks, slept>>
  BY <1>0, <1>2 DEF acquire
<1>8. PICK c \in HartSet :
        /\ HartBecomes(h, c) /\ c.cur = t /\ c.intr = FALSE
        /\ c.noff = hart[h].noff + 1
        /\ c.intena = IF hart[h].noff = 0 THEN hart[h].intr ELSE hart[h].intena
  <2>1. HartBecomes(h, push_off(hart[h]))
    BY DEF acquire, HartBecomes
  <2> QED
    BY <1>0, <1>3, <2>1, PushOff
<1>7. /\ Alone(h)
      /\ hart' \in [TrapHart -> HartSet] /\ hart'[h] = c
      /\ stack' \in [Thread -> Seq(FrameSet)]
      /\ Len(stack'[t]) = Len(stack[t]) /\ Last(stack'[t]) = g
      /\ stack'[t][1] = IF Len(stack[t]) = 1 THEN g ELSE stack[t][1]
      /\ Len(stack[t]) = 2 => stack'[t][2] = g
  BY <1>0, <1>5, <1>6, <1>8, FrameStep
<1>9. Alone(h)
  BY <1>7
<1>10. tpanic' = FALSE
  <2>1. l \notin MarkedBy(h)
    BY <1>3, <1>5 DEF Marked
  <2>2. ~holding(h, l)
    BY <2>1 DEF holding, TrapInv, Locks
  <2> QED
    BY <2>2 DEF acquire, TrapInv, TrapTypes
<1>11. TrapTypes'
  BY <1>6, <1>7, <1>10 DEF TrapInv, TrapTypes
<1>12. Stacks'
  <2>2. StackOK(t, stack'[t])
    BY <1>2, <1>3, <1>4, <1>7 DEF StackOK, AcquireCase, ProcPcs, SchedulerPcs, HandlerPcs
  <2> QED
    BY <1>0, <1>5, <1>7, <1>9, <2>2, AloneStacks
<1>13. Placed'
  BY <1>6, <1>9, AlonePlaced
<1>14. Locks'
  BY <1>0, <1>3, <1>5, <1>6, <1>7, <1>9, AloneLocks
<1>15. Nesting'
  <2>1. IntrOK(t, hart[h], stack[t])
    BY <1>3
  <2>2. g.pc = pc /\ g.sub = "swap"
    BY <1>2
  <2>3. hart[h].noff = 0 => ~(f.pc = "while")
    BY <1>1, <2>1 DEF IntrOK, Depth, TicksPcs
  <2>4. IntrOK(t, hart'[h], stack'[t])
    BY <1>1, <1>3, <1>4, <1>5, <1>7, <1>8, <2>1, <2>2, <2>3
       DEF IntrOK, AcquireCase, HartSet, HandlerPcs, ProcPcs, SchedulerPcs
  <2>5. pc \notin {"awake", "yielded"}
    BY <1>4 DEF AcquireCase
  <2> QED
    BY <1>0, <1>6, <1>7, <1>9, <2>2, <2>4, <2>5, AloneNesting
<1>16. Counting'
  <2>1. g.pc = "clockintr" => h = Hart0 /\ f.pc = "devintr"
    BY <1>2, <1>4 DEF AcquireCase
  <2>2. g.pc # "devintr"
    BY <1>2, <1>4 DEF AcquireCase
  <2>3. f.pc = "devintr" /\ h = Hart0 => TickBound
    BY <1>0, <1>1 DEF TrapInv, Counting
  <2>4. slept' \in [TrapProc -> Nat] /\ \A p \in TrapProc : slept'[p] <= slept[p]
    BY <1>6 DEF TrapInv, TrapTypes
  <2> QED
    BY <1>0, <1>7, <1>9, <2>1, <2>2, <2>3, <2>4, AloneCounting
<1>17. Sleeping'
  <2>1. f.pc # "wakeup"
    BY <1>4 DEF AcquireCase
  <2>2. ASSUME NEW p \in TrapProc, p = t
        PROVE  SleepOK(p)'
    <3>1. SleepOK(p)
      BY <1>3, <2>2
    <3>2. ps[p].state = "RUNNING"
      BY <1>3, <2>2
    <3>3. CASE Len(stack[t]) = 2
      BY <1>0, <1>6, <1>7, <2>2, <3>2, <3>3, HandlerSleeping
    <3>4. CASE Len(stack[t]) = 1
      <4>1. stack'[p][1].pc = pc /\ stack[p][1].pc = f.pc
        BY <1>2, <1>3, <1>7, <2>2, <3>4
      <4> QED
        BY <1>3, <1>4, <1>6, <2>2, <3>1, <3>2, <3>4, <4>1 DEF SleepOK, AcquireCase
    <3> QED
      BY <1>3, <3>3, <3>4
  <2> QED
    BY <1>0, <1>1, <1>6, <1>9, <2>1, <2>2, AloneSleeping
<1> QED
  BY <1>11, <1>12, <1>13, <1>14, <1>15, <1>16, <1>17 DEF TrapInv

-----------------------------------------------------------------------------
(* The steps of acquire and release *)

\* A step inside acquire or release does not move the thread.
LEMMA SubStep ==
  ASSUME TrapInv, NEW h \in TrapHart, NEW t, t = hart[h].cur, NEW f, f = Last(stack[t]),
         f.sub # "-", NEW g \in FrameSet, g.pc = f.pc, FrameOK(t, g), GoOn(t, g),
         NEW c \in HartSet, c.cur = t, HartBecomes(h, c), UNCHANGED <<ps, ticks, slept>>
  PROVE  Stacks' /\ Placed' /\ Counting' /\ Sleeping'
<1>1. /\ t \in Thread /\ StackOK(t, stack[t]) /\ FrameOK(t, f)
      /\ Len(stack[t]) = 1 \/ Len(stack[t]) = 2
      /\ Len(stack[t]) = 1 => stack[t][1] = f
      /\ t \in TrapProc => ps[t].state = "RUNNING" /\ SleepOK(t)
  BY Before
<1>2. /\ Alone(h)
      /\ Len(stack'[t]) = Len(stack[t]) /\ Last(stack'[t]) = g
      /\ stack'[t][1] = IF Len(stack[t]) = 1 THEN g ELSE stack[t][1]
      /\ Len(stack[t]) = 2 => stack'[t][2] = g
  BY FrameStep
<1>3. Stacks'
  <2>1. Len(stack[t]) = 2 => stack[t][2] = f
    BY DEF Last
  <2>2. StackOK(t, stack'[t])
    BY <1>1, <1>2, <2>1 DEF StackOK
  <2> QED
    BY <1>2, <2>2, AloneStacks
<1>4. Placed'
  BY <1>2, AlonePlaced
<1>5. Counting'
  <2>1. slept' \in [TrapProc -> Nat] /\ \A p \in TrapProc : slept'[p] <= slept[p]
    BY DEF TrapInv, TrapTypes
  <2>2. f.pc = "clockintr" => h = Hart0
    BY DEF TrapInv, Counting
  <2>3. f.pc # "devintr"
    BY <1>1 DEF FrameOK
  <2>4. f.pc = "clockintr" => TickBound
    BY <2>2 DEF TrapInv, Counting
  <2> QED
    BY <1>2, <2>1, <2>2, <2>3, <2>4, AloneCounting
<1>6. Sleeping'
  <2>1. f.pc # "wakeup"
    BY <1>1 DEF FrameOK
  <2>2. ASSUME NEW p \in TrapProc, p = t
        PROVE  SleepOK(p)'
    <3>1. stack'[p][1].pc = stack[p][1].pc
      BY <1>1, <1>2, <2>2
    <3>2. Waking(p) => Waking(p)'
      BY <1>2, <2>1 DEF Waking, Alone
    <3> QED
      BY <1>1, <2>2, <3>1, <3>2 DEF SleepOK
  <2> QED
    BY <1>2, <2>1, <2>2, AloneSleeping
<1> QED
  BY <1>3, <1>4, <1>5, <1>6

\* The atomic swap takes a lock that no hart has.
LEMMA AcquireSwapKeeps ==
  ASSUME TrapInv, NEW h \in TrapHart, AcquireSwap(h)
  PROVE  TrapInv'
<1>0. PICK t : t = hart[h].cur
  OBVIOUS
<1>1. PICK f : f = Last(stack[t])
  OBVIOUS
<1>2. /\ t \in Thread /\ f \in FrameSet /\ hart[h] \in HartSet /\ hart[h].cur = t
      /\ FrameOK(t, f) /\ IntrOK(t, hart[h], stack[t]) /\ SubOK(t, f)
      /\ TakenBy(h) = Taken(t, f) /\ MarkedBy(h) = Marked(t, f)
  BY <1>0, <1>1, Before
<1>3. PICK g : g = [f EXCEPT !.sub = "cpu"]
  OBVIOUS
<1>4. g \in FrameSet /\ g.pc = f.pc /\ g.sub = "cpu" /\ g.lk = f.lk
  BY <1>2, <1>3 DEF FrameSet
<1>5. /\ f.sub = "swap" /\ ~spin[f.lk].locked /\ GoOn(t, g)
      /\ spin' = [spin EXCEPT ![f.lk].locked = TRUE]
      /\ UNCHANGED <<hart, ps, ticks, slept, tpanic>>
  BY <1>0, <1>1, <1>3 DEF AcquireSwap, TopFrame, Last
<1>6. FrameOK(t, g)
  BY <1>2, <1>4, <1>5 DEF FrameOK
<1>7. HartBecomes(h, hart[h])
  BY <1>5 DEF HartBecomes, TrapInv, TrapTypes
<1>8. /\ Alone(h) /\ hart'[h] = hart[h] /\ stack' \in [Thread -> Seq(FrameSet)]
      /\ Len(stack'[t]) = Len(stack[t]) /\ Last(stack'[t]) = g
  BY <1>0, <1>2, <1>4, <1>5, <1>7, FrameStep
<1>9. Stacks' /\ Placed' /\ Counting' /\ Sleeping'
  BY <1>0, <1>1, <1>2, <1>4, <1>5, <1>6, <1>7, SubStep
<1>10. f.lk \in LockId /\ f.lk \in Held(t, f) /\ \A m : m \in Held(t, f) => m \in LockId
  BY <1>2, <1>5 DEF SubOK, Held
<1>11. \A m \in LockId : m \in Held(t, g) <=> m \in Held(t, f)
  BY <1>4 DEF Held
<1>12. TrapTypes'
  BY <1>5, <1>8, <1>10 DEF TrapInv, TrapTypes, SpinSet
<1>13. Nesting'
  <2>1. SubOK(t, g)
    BY <1>4, <1>10, <1>11 DEF SubOK
  <2>2. Depth(g) = Depth(f)
    BY <1>4, <1>5 DEF Depth
  <2>3. IntrOK(t, hart'[h], stack'[t])
    BY <1>1, <1>2, <1>4, <1>8, <2>1, <2>2 DEF IntrOK
  <2>4. f.pc \notin {"awake", "yielded"}
    BY <1>2, <1>5 DEF FrameOK
  <2> QED
    BY <1>0, <1>4, <1>5, <1>8, <2>3, <2>4, AloneNesting
<1>14. Locks'
  <2>1. \A k \in TrapHart : MarkedBy(k)' = MarkedBy(k)
    <3>1. Marked(t, g) = Marked(t, f)
      BY <1>4, <1>5, <1>10, <1>11 DEF Marked, Held
    <3> QED
      BY <1>0, <1>2, <1>8, <3>1, AloneTaken
  <2>2. \A k \in TrapHart, m \in LockId :
          m \in TakenBy(k)' <=> (m \in TakenBy(k) \/ (k = h /\ m = f.lk))
    <3>1. \A m \in LockId : m \in Taken(t, g) <=> (m \in Taken(t, f) \/ m = f.lk)
      BY <1>4, <1>5, <1>10, <1>11 DEF Taken
    <3> QED
      BY <1>0, <1>2, <1>8, <3>1, AloneTaken
  <2>3. \A m \in LockId : /\ spin'[m].cpu = spin[m].cpu
                          /\ spin'[m].locked <=> (spin[m].locked \/ m = f.lk)
    BY <1>5, <1>10 DEF TrapInv, TrapTypes, SpinSet
  <2>4. \A k \in TrapHart : f.lk \notin TakenBy(k)
    BY <1>5, <1>10 DEF TrapInv, Locks
  <2> QED
    BY <1>10, <2>1, <2>2, <2>3, <2>4 DEF TrapInv, Locks
<1> QED
  BY <1>9, <1>12, <1>13, <1>14 DEF TrapInv

\* acquire marks the lock that it took as its hart's.
LEMMA AcquireCpuKeeps ==
  ASSUME TrapInv, NEW h \in TrapHart, AcquireCpu(h)
  PROVE  TrapInv'
<1>0. PICK t : t = hart[h].cur
  OBVIOUS
<1>1. PICK f : f = Last(stack[t])
  OBVIOUS
<1>2. /\ t \in Thread /\ f \in FrameSet /\ hart[h] \in HartSet /\ hart[h].cur = t
      /\ FrameOK(t, f) /\ IntrOK(t, hart[h], stack[t]) /\ SubOK(t, f)
      /\ TakenBy(h) = Taken(t, f) /\ MarkedBy(h) = Marked(t, f)
  BY <1>0, <1>1, Before
<1>3. PICK g : g = [f EXCEPT !.sub = "-"]
  OBVIOUS
<1>4. g \in FrameSet /\ g.pc = f.pc /\ g.sub = "-" /\ g.lk = f.lk
  BY <1>2, <1>3 DEF FrameSet
<1>5. /\ f.sub = "cpu" /\ GoOn(t, g)
      /\ spin' = [spin EXCEPT ![f.lk].cpu = h]
      /\ UNCHANGED <<hart, ps, ticks, slept, tpanic>>
  BY <1>0, <1>1, <1>3 DEF AcquireCpu, TopFrame, Last
<1>6. FrameOK(t, g)
  BY <1>2, <1>4, <1>5 DEF FrameOK
<1>7. HartBecomes(h, hart[h])
  BY <1>5 DEF HartBecomes, TrapInv, TrapTypes
<1>8. /\ Alone(h) /\ hart'[h] = hart[h] /\ stack' \in [Thread -> Seq(FrameSet)]
      /\ Len(stack'[t]) = Len(stack[t]) /\ Last(stack'[t]) = g
  BY <1>0, <1>2, <1>4, <1>5, <1>7, FrameStep
<1>9. Stacks' /\ Placed' /\ Counting' /\ Sleeping'
  BY <1>0, <1>1, <1>2, <1>4, <1>5, <1>6, <1>7, SubStep
<1>10. f.lk \in LockId /\ f.lk \in Held(t, f) /\ \A m : m \in Held(t, f) => m \in LockId
  BY <1>2, <1>5 DEF SubOK, Held
<1>11. \A m \in LockId : m \in Held(t, g) <=> m \in Held(t, f)
  BY <1>4 DEF Held
<1>12. TrapTypes'
  BY <1>5, <1>8, <1>10 DEF TrapInv, TrapTypes, SpinSet
<1>13. Nesting'
  <2>1. SubOK(t, g)
    BY <1>4, <1>10, <1>11 DEF SubOK
  <2>2. Depth(g) = Depth(f)
    BY <1>4, <1>5 DEF Depth
  <2>3. IntrOK(t, hart'[h], stack'[t])
    BY <1>1, <1>2, <1>4, <1>8, <2>1, <2>2 DEF IntrOK
  <2>4. f.pc \notin {"awake", "yielded"}
    BY <1>2, <1>5 DEF FrameOK
  <2> QED
    BY <1>0, <1>4, <1>5, <1>8, <2>3, <2>4, AloneNesting
<1>14. Locks'
  <2>1. \A k \in TrapHart : TakenBy(k)' = TakenBy(k)
    <3>1. Taken(t, g) = Taken(t, f)
      BY <1>4, <1>5, <1>10, <1>11 DEF Taken, Held
    <3> QED
      BY <1>0, <1>2, <1>8, <3>1, AloneTaken
  <2>2. \A k \in TrapHart, m \in LockId :
          m \in MarkedBy(k)' <=> (m \in MarkedBy(k) \/ (k = h /\ m = f.lk))
    <3>1. \A m \in LockId : m \in Marked(t, g) <=> (m \in Marked(t, f) \/ m = f.lk)
      BY <1>4, <1>5, <1>10, <1>11 DEF Marked
    <3> QED
      BY <1>0, <1>2, <1>8, <3>1, AloneTaken
  <2>3. \A m \in LockId : /\ spin'[m].locked = spin[m].locked
                          /\ spin'[m].cpu = IF m = f.lk THEN h ELSE spin[m].cpu
    BY <1>5, <1>10 DEF TrapInv, TrapTypes, SpinSet
  <2>4. f.lk \in TakenBy(h)
    BY <1>2, <1>5, <1>10 DEF Taken
  <2>5. \A k \in TrapHart : f.lk \in MarkedBy(k) => f.lk \in TakenBy(k)
    BY DEF MarkedBy, TakenBy, Marked, Taken, Held
  <2>6. \A k \in TrapHart : f.lk \in MarkedBy(k) => k = h
    BY <1>10, <2>4, <2>5 DEF TrapInv, Locks
  <2>7. \A m \in LockId, k \in TrapHart : spin'[m].cpu = k <=> m \in MarkedBy(k)'
    BY <1>10, <2>2, <2>3, <2>6 DEF TrapInv, Locks
  <2> QED
    BY <2>1, <2>3, <2>7 DEF TrapInv, Locks
<1> QED
  BY <1>9, <1>12, <1>13, <1>14 DEF TrapInv

\* pop_off counts back and, at the outermost, restores the interrupts.
LEMMA PopOff ==
  ASSUME NEW c \in HartSet, c.noff >= 1
  PROVE  /\ pop_off(c) \in HartSet
         /\ pop_off(c).cur = c.cur /\ pop_off(c).intena = c.intena /\ pop_off(c).noff = c.noff - 1
         /\ pop_off(c).intr <=> (c.noff = 1 /\ c.intena)
<1> DEFINE e == (c.noff = 1 /\ c.intena)
<1>1. c.intr \in BOOLEAN /\ c.noff \in Nat /\ c.intena \in BOOLEAN /\ c.cur \in Thread
  BY DEF HartSet
<1>2. e \in BOOLEAN
  OBVIOUS
<1>3. pop_off(c) = [c EXCEPT !.noff = c.noff - 1, !.intr = e]
  BY DEF pop_off, HartSet
<1> HIDE DEF e
<1>4. pop_off(c) = [intr |-> e, noff |-> c.noff - 1, intena |-> c.intena, cur |-> c.cur]
  BY <1>3 DEF HartSet
<1>5. c.noff - 1 \in Nat
  BY <1>1
<1>6. pop_off(c) \in HartSet
  BY <1>1, <1>2, <1>4, <1>5 DEF HartSet
<1>7. /\ pop_off(c).cur = c.cur /\ pop_off(c).intena = c.intena
      /\ pop_off(c).noff = c.noff - 1 /\ pop_off(c).intr = e
  BY <1>4
<1>8. e <=> (c.noff = 1 /\ c.intena)
  BY DEF e
<1> QED
  BY <1>6, <1>7, <1>8

\* The end of release lets the lock go; it does not panic, and turns interrupts
\* on only where the last lock was taken with them on.
LEMMA ReleaseUnlockKeeps ==
  ASSUME TrapInv, NEW h \in TrapHart, ReleaseUnlock(h)
  PROVE  TrapInv'
<1>0. PICK t : t = hart[h].cur
  OBVIOUS
<1>1. PICK f : f = Last(stack[t])
  OBVIOUS
<1>2. /\ t \in Thread /\ f \in FrameSet /\ hart[h] \in HartSet /\ hart[h].cur = t
      /\ FrameOK(t, f) /\ IntrOK(t, hart[h], stack[t]) /\ SubOK(t, f)
      /\ f.pc \in HandlerPcs <=> Len(stack[t]) = 2
      /\ f.pc \in ProcPcs <=> (Len(stack[t]) = 1 /\ t \in TrapProc)
      /\ TakenBy(h) = Taken(t, f) /\ MarkedBy(h) = Marked(t, f)
  BY <1>0, <1>1, Before
<1>3. PICK g : g = [f EXCEPT !.sub = "-", !.lk = NoLock]
  OBVIOUS
<1>4. g \in FrameSet /\ g.pc = f.pc /\ g.sub = "-" /\ g.lk = NoLock
  BY <1>2, <1>3 DEF FrameSet
<1>5. /\ f.sub = "unlock" /\ GoOn(t, g)
      /\ spin' = [spin EXCEPT ![f.lk].locked = FALSE]
      /\ hart' = [hart EXCEPT ![h] = pop_off(@)]
      /\ tpanic' = (tpanic \/ hart[h].intr \/ hart[h].noff < 1)
      /\ UNCHANGED <<ps, ticks, slept>>
  BY <1>0, <1>1, <1>3 DEF ReleaseUnlock, TopFrame, Last
<1>10. /\ f.lk \in LockId /\ f.lk \notin Held(t, f)
       /\ \A m : m \in Held(t, f) \/ m \in Held(t, g) => m \in LockId
  BY <1>2, <1>5 DEF SubOK, Held
<1>15. f.pc \notin PickPcs
  BY <1>10 DEF Held
<1>6. FrameOK(t, g)
  BY <1>2, <1>4, <1>5, <1>15, TrapAssumption DEF FrameOK
<1>16. hart[h].noff = Depth(f) /\ Depth(f) = Depth(g) + 1 /\ Depth(g) \in Nat /\ ~hart[h].intr
  <2>1. hart[h].noff = Depth(f)
    BY <1>1, <1>2 DEF IntrOK
  <2>2. Depth(f) = Depth(g) + 1 /\ Depth(g) \in Nat
    BY <1>4, <1>5 DEF Depth
  <2> QED
    BY <1>1, <1>2, <2>1, <2>2 DEF IntrOK
<1>7. PICK c \in HartSet :
        /\ HartBecomes(h, c) /\ c.cur = t /\ c.intena = hart[h].intena
        /\ c.noff = hart[h].noff - 1 /\ (c.intr <=> (hart[h].noff = 1 /\ hart[h].intena))
  <2>1. HartBecomes(h, pop_off(hart[h])) /\ hart[h].noff >= 1
    BY <1>5, <1>16 DEF HartBecomes
  <2> QED
    BY <1>2, <2>1, PopOff
<1>8. /\ Alone(h) /\ hart'[h] = c /\ hart' \in [TrapHart -> HartSet]
      /\ stack' \in [Thread -> Seq(FrameSet)]
      /\ Len(stack'[t]) = Len(stack[t]) /\ Last(stack'[t]) = g
  BY <1>0, <1>2, <1>4, <1>5, <1>7, FrameStep
<1>9. Stacks' /\ Placed' /\ Counting' /\ Sleeping'
  BY <1>0, <1>1, <1>4, <1>5, <1>6, <1>7, SubStep
<1>11. \A m : m \in Held(t, g) <=> m \in Held(t, f)
  BY <1>4, <1>15 DEF Held
<1>12. TrapTypes'
  <2>1. ~(hart[h].noff < 1)
    BY <1>16
  <2>2. tpanic = FALSE
    BY DEF TrapInv, TrapTypes
  <2>3. tpanic' = FALSE
    BY <1>5, <1>16, <2>1, <2>2
  <2> QED
    BY <1>5, <1>8, <1>10, <2>3 DEF TrapInv, TrapTypes, SpinSet
<1>13. Nesting'
  <2>1. SubOK(t, g)
    BY <1>4 DEF SubOK
  <2>2. f.pc \notin {"awake", "yielded", "forkret", "user"}
    BY <1>2, <1>5 DEF FrameOK
  <2>3. Len(stack[t]) = 2 => ~hart[h].intena
    BY <1>1, <1>2, <1>16, <2>2 DEF IntrOK
  <2>4. f.pc \in {"sys_sleep", "sys_uptime", "relock", "slept"} => hart[h].intena
    BY <1>1, <1>2, <1>16, <2>2 DEF IntrOK, ProcPcs
  <2>5. IntrOK(t, c, stack'[t])
    BY <1>1, <1>2, <1>4, <1>7, <1>8, <1>16, <2>1, <2>2, <2>3, <2>4 DEF IntrOK, HartSet
  <2> QED
    BY <1>0, <1>4, <1>5, <1>8, <2>2, <2>5, AloneNesting
<1>14. Locks'
  <2>1. \A k \in TrapHart : MarkedBy(k)' = MarkedBy(k)
    <3>1. Marked(t, g) = Marked(t, f)
      BY <1>4, <1>5, <1>11 DEF Marked
    <3> QED
      BY <1>0, <1>2, <1>8, <3>1, AloneTaken
  <2>2. \A k \in TrapHart, m \in LockId :
          m \in TakenBy(k)' <=> (m \in TakenBy(k) /\ ~(k = h /\ m = f.lk))
    <3>1. \A m \in LockId : m \in Taken(t, g) <=> (m \in Taken(t, f) /\ m # f.lk)
      BY <1>4, <1>5, <1>10, <1>11 DEF Taken
    <3> QED
      BY <1>0, <1>2, <1>8, <3>1, AloneTaken
  <2>3. \A m \in LockId : /\ spin'[m].cpu = spin[m].cpu
                          /\ spin'[m].locked <=> (spin[m].locked /\ m # f.lk)
    BY <1>5, <1>10 DEF TrapInv, TrapTypes, SpinSet
  <2>4. f.lk \in TakenBy(h)
    BY <1>2, <1>5, <1>10 DEF Taken
  <2>5. \A k \in TrapHart : f.lk \in TakenBy(k) => k = h
    BY <1>10, <2>4 DEF TrapInv, Locks
  <2>6. \A m \in LockId : spin'[m].locked <=> \E k \in TrapHart : m \in TakenBy(k)'
    BY <2>2, <2>3, <2>5 DEF TrapInv, Locks
  <2> QED
    BY <2>1, <2>2, <2>3, <2>6 DEF TrapInv, Locks
<1> QED
  BY <1>9, <1>12, <1>13, <1>14 DEF TrapInv

-----------------------------------------------------------------------------
(* release *)

\* The calls of release: in a thread t at frame f, of l, on the way to pc.
ReleaseCase(t, f, l, pc) ==
  \/ f.pc \in PickPcs /\ pc = "scan" /\ l = f.lk
  \/ f.pc = "forkret" /\ pc = "usertrapret" /\ l = t
  \/ f.pc = "wakeup" /\ pc = "tick" /\ l = Ticklock /\ f.lk \subseteq {t}
  \/ f.pc = "uptime" /\ pc = "usertrapret" /\ l = Ticklock
  \/ f.pc = "while" /\ pc = "slept" /\ l = Ticklock /\ slept[t] >= ps[t].n
  \/ f.pc = "while" /\ pc = "usertrapret" /\ l = Ticklock
  \/ f.pc = "sleep" /\ pc = "sched" /\ l = Ticklock
  \/ f.pc = "yielded" /\ pc = "sret" /\ l = t
  \/ f.pc = "awake" /\ pc = "relock" /\ l = t

\* release takes one lock from those of the thread; it is still taken.
LEMMA ReleaseFrames ==
  ASSUME NEW t \in Thread, NEW f \in FrameSet, NEW l, NEW pc, FrameOK(t, f), f.sub = "-",
         ReleaseCase(t, f, l, pc), t \in TrapProc \/ f.pc \notin ProcPcs \union {"yielded"}
  PROVE  LET g == [pc |-> pc, sub |-> "unlock", lk |-> l]
         IN /\ l \in LockId /\ g \in FrameSet /\ l \in Marked(t, f) /\ l \in Taken(t, f)
            /\ Taken(t, g) = Taken(t, f) /\ Marked(t, g) = Marked(t, f) \ {l}
            /\ Depth(g) = Depth(f) /\ Depth(f) \in Nat /\ Depth(f) > 0
            /\ FrameOK(t, g) /\ SubOK(t, g)
<1> DEFINE g == [pc |-> pc, sub |-> "unlock", lk |-> l]
<1>0. Ticklock \in LockId /\ Ticklock \notin TrapProc /\ (t \in TrapProc => t # Ticklock /\ t \in LockId)
  BY TrapAssumption DEF LockId
<1>1. l \in LockId
  BY <1>0 DEF ReleaseCase, FrameOK, LockId, ProcPcs
<1>2. g \in FrameSet
  BY <1>1 DEF ReleaseCase, FrameSet, HandlerPcs, ProcPcs, SchedulerPcs
<1>3. \A m \in LockId : m \in Held(t, f) <=> (m \in Held(t, g) \/ m = l)
  BY <1>0 DEF ReleaseCase, Held, TicksPcs, OwnPcs, PickPcs, ProcPcs
<1>4. l \notin Held(t, g)
  BY <1>0 DEF ReleaseCase, Held, TicksPcs, OwnPcs, PickPcs, ProcPcs
<1>5. Depth(g) = Depth(f) /\ Depth(f) \in Nat /\ Depth(f) > 0
  BY DEF ReleaseCase, Depth, TicksPcs, OwnPcs, PickPcs
<1>6. FrameOK(t, g)
  BY DEF ReleaseCase, FrameOK, PickPcs
<1>7. g.sub = "unlock" /\ g.lk = l
  OBVIOUS
<1> HIDE DEF g
<1>8. \A m : m \in Held(t, f) \/ m \in Held(t, g) => m \in LockId
  BY DEF Held
<1>9. Taken(t, g) = Taken(t, f)
  BY <1>1, <1>3, <1>4, <1>7, <1>8 DEF Taken
<1>10. Marked(t, g) = Marked(t, f) \ {l}
  BY <1>1, <1>3, <1>4, <1>7, <1>8 DEF Marked
<1>11. SubOK(t, g)
  BY <1>1, <1>4, <1>7 DEF SubOK
<1>12. l \in Marked(t, f) /\ l \in Taken(t, f)
  BY <1>1, <1>3 DEF Marked, Taken
<1> QED
  BY <1>1, <1>2, <1>5, <1>6, <1>9, <1>10, <1>11, <1>12 DEF g

\* The first part of release, in a thread t at frame f, on a hart that becomes c.
\* After sched, hart and ps have intena as the thread left it, on whatever hart
\* that was.
ReleaseHart(h, t, f, c) ==
  /\ c \in HartSet /\ HartBecomes(h, c)
  /\ c.cur = t /\ c.noff = hart[h].noff /\ c.intr = hart[h].intr
  /\ f.pc \notin {"yielded", "awake"} => c.intena = hart[h].intena
  /\ f.pc \in {"yielded", "awake"} => c.intena = ps[t].intena

ReleaseProcs(t) ==
  /\ UNCHANGED <<ticks, slept>> /\ ps' \in [TrapProc -> PsSet]
  /\ \A p \in TrapProc :
       /\ ps'[p].n = ps[p].n /\ ps'[p].ticks0 = ps[p].ticks0 /\ ps'[p].state = ps[p].state
       /\ p # t => ps'[p].intena = ps[p].intena

\* The first part of release keeps the invariant: it does not panic, and clears
\* the mark of a lock that its hart has.
LEMMA ReleaseKeeps ==
  ASSUME TrapInv, NEW h \in TrapHart, NEW t, t = hart[h].cur, NEW f, f = Last(stack[t]),
         f.sub = "-", NEW l, NEW pc, release(h, l, pc), ReleaseCase(t, f, l, pc),
         NEW c, ReleaseHart(h, t, f, c), ReleaseProcs(t)
  PROVE  TrapInv'
<1>1. c \in HartSet /\ HartBecomes(h, c) /\ c.cur = t
  BY DEF ReleaseHart
<1>2. PICK g : g = [pc |-> pc, sub |-> "unlock", lk |-> l]
  OBVIOUS
<1>3. /\ t \in Thread /\ f \in FrameSet /\ FrameOK(t, f)
      /\ t \in TrapProc => ps[t].state = "RUNNING" /\ SleepOK(t)
      /\ f.pc \in {"yield", "yielded"} => t \in TrapProc
  BY Before
<1>4. Len(stack[t]) = 1 \/ Len(stack[t]) = 2
  BY Before
<1>5. Len(stack[t]) = 1 => stack[t][1] = f
  BY Before
<1>6. /\ f.pc \in HandlerPcs <=> Len(stack[t]) = 2
      /\ f.pc \in ProcPcs <=> (Len(stack[t]) = 1 /\ t \in TrapProc)
      /\ f.pc \in SchedulerPcs <=> (Len(stack[t]) = 1 /\ t \notin TrapProc)
  BY Before
<1>7. StackOK(t, stack[t]) /\ IntrOK(t, hart[h], stack[t])
  BY Before
<1>8. TakenBy(h) = Taken(t, f) /\ MarkedBy(h) = Marked(t, f)
  BY Before
<1>9. t \in TrapProc \/ f.pc \notin ProcPcs \union {"yielded"}
  BY <1>3, <1>6
<1>10. /\ l \in LockId /\ g \in FrameSet /\ l \in Marked(t, f) /\ l \in Taken(t, f)
       /\ Taken(t, g) = Taken(t, f) /\ Marked(t, g) = Marked(t, f) \ {l}
       /\ Depth(g) = Depth(f) /\ Depth(f) \in Nat /\ Depth(f) > 0
       /\ FrameOK(t, g) /\ SubOK(t, g)
  BY <1>2, <1>3, <1>9, ReleaseFrames
<1>11. GoOn(t, g) /\ spin' = [spin EXCEPT ![l].cpu = NoHart]
  BY <1>2 DEF release
<1>12. /\ Alone(h)
       /\ hart' \in [TrapHart -> HartSet] /\ hart'[h] = c
       /\ stack' \in [Thread -> Seq(FrameSet)]
       /\ Len(stack'[t]) = Len(stack[t]) /\ Last(stack'[t]) = g
       /\ stack'[t][1] = IF Len(stack[t]) = 1 THEN g ELSE stack[t][1]
       /\ Len(stack[t]) = 2 => stack'[t][2] = g
  BY <1>1, <1>10, <1>11, FrameStep
<1>13. spin[l].locked /\ spin[l].cpu = h
  <2>1. l \in TakenBy(h) /\ l \in MarkedBy(h)
    BY <1>8, <1>10
  <2> QED
    BY <1>10, <2>1 DEF TrapInv, Locks
<1>14. tpanic' = FALSE
  BY <1>13 DEF release, holding, TrapInv, TrapTypes
<1>15. \A m \in LockId : /\ spin'[m].locked = spin[m].locked
                         /\ spin'[m].cpu = IF m = l THEN NoHart ELSE spin[m].cpu
  BY <1>10, <1>11 DEF TrapInv, TrapTypes, SpinSet
<1>16. TrapTypes'
  <2>1. spin' \in [LockId -> SpinSet]
    <3>1. spin \in [LockId -> SpinSet] /\ l \in LockId
      BY <1>10 DEF TrapInv, TrapTypes
    <3>2. PICK z : z = [spin[l] EXCEPT !.cpu = NoHart]
      OBVIOUS
    <3>3. z \in SpinSet
      BY <3>1, <3>2 DEF SpinSet
    <3>4. spin' = [spin EXCEPT ![l] = z]
      BY <1>11, <3>1, <3>2
    <3> QED
      BY <3>1, <3>3, <3>4
  <2> QED
    BY <1>12, <1>14, <2>1 DEF TrapInv, TrapTypes, ReleaseProcs
<1>17. Stacks'
  <2>1. /\ Len(stack[t]) = 1 => pc \in (IF t \in TrapProc THEN ProcPcs ELSE SchedulerPcs)
        /\ Len(stack[t]) = 2 => pc \in HandlerPcs /\ pc \notin {"yield", "yielded"}
    BY <1>6 DEF ReleaseCase, ProcPcs, SchedulerPcs, HandlerPcs, PickPcs
  <2>2. g.pc = pc
    BY <1>2
  <2>3. StackOK(t, stack'[t])
    BY <1>7, <1>12, <2>1, <2>2, StackGoesOn
  <2> QED
    BY <1>10, <1>12, <2>3, AloneStacks
<1>18. Placed'
  BY <1>12, AlonePlaced DEF ReleaseProcs
<1>19. Locks'
  <2>1. /\ \A k \in TrapHart : k # h => TakenBy(k)' = TakenBy(k) /\ MarkedBy(k)' = MarkedBy(k)
        /\ TakenBy(h)' = Taken(t, g) /\ MarkedBy(h)' = Marked(t, g)
    BY <1>12, AloneTaken
  <2>0. \A k \in TrapHart : TakenBy(k)' = TakenBy(k)
    BY <1>8, <1>10, <2>1
  <2>2. \A k \in TrapHart, m \in LockId :
          m \in MarkedBy(k)' <=> (m \in MarkedBy(k) /\ ~(k = h /\ m = l))
    <3>1. MarkedBy(h)' = MarkedBy(h) \ {l}
      BY <1>8, <1>10, <2>1
    <3> QED
      BY <2>1, <3>1
  <2>3. \A m \in LockId, k \in TrapHart : spin'[m].cpu = k <=> m \in MarkedBy(k)'
    BY <1>10, <1>13, <1>15, <2>2, TrapAssumption DEF TrapInv, Locks
  <2>4. Locks
    BY DEF TrapInv
  <2>5. \A m \in LockId : spin'[m].locked <=> \E k \in TrapHart : m \in TakenBy(k)'
    BY <1>15, <2>0, <2>4 DEF Locks
  <2>6. \A m \in LockId, j, k \in TrapHart : m \in TakenBy(j)' /\ m \in TakenBy(k)' => j = k
    BY <2>0, <2>4 DEF Locks
  <2> QED
    BY <2>3, <2>5, <2>6 DEF Locks
<1>20. Nesting'
  <2>1. g.pc = pc /\ g.sub = "unlock"
    BY <1>2
  <2>2. hart[h].noff = Depth(f) /\ ~hart[h].intr
    BY <1>7, <1>10 DEF IntrOK
  <2>3. f.pc = "yielded" => ~c.intena
    BY <1>3 DEF TrapInv, Nesting, ReleaseHart
  <2>4. f.pc = "awake" => c.intena /\ Len(stack[t]) = 1
    <3>1. f.pc = "awake" => t \in TrapProc /\ Len(stack[t]) = 1
      BY <1>6 DEF ProcPcs
    <3> QED
      BY <3>1 DEF TrapInv, Nesting, ReleaseHart
  <2>5. f.pc \notin {"yielded", "awake"} => c.intena = hart[h].intena
    BY DEF ReleaseHart
  <2>6. /\ f.pc # "yielded" /\ Len(stack[t]) = 2 => ~hart[h].intena
        /\ f.pc \notin {"awake", "forkret", "usertrapret"} /\ Len(stack[t]) = 1 /\ t \in TrapProc
             => hart[h].intena
    BY <1>7, <1>10, <2>2 DEF IntrOK
  <2>7. Len(stack[t]) = 2 => ~c.intena
    BY <2>3, <2>4, <2>5, <2>6
  <2>8. pc \in {"slept", "sched", "relock"} => c.intena
    <3>1. pc \in {"slept", "sched"} => f.pc \in {"while", "sleep"}
      BY DEF ReleaseCase
    <3>2. f.pc \in {"while", "sleep"} => Len(stack[t]) = 1 /\ t \in TrapProc
      BY <1>6 DEF ProcPcs
    <3>3. pc = "relock" => f.pc = "awake"
      BY DEF ReleaseCase
    <3> QED
      BY <2>4, <2>5, <2>6, <3>1, <3>2, <3>3
  <2>9. pc \in {"scan", "usertrapret", "tick", "slept", "sched", "sret", "relock"}
    BY DEF ReleaseCase
  <2>10. Len(stack[t]) = 1 /\ t \in TrapProc => pc \notin {"scan", "tick", "sret"}
    BY <1>6 DEF ReleaseCase, ProcPcs, PickPcs
  <2>11. c.noff = Depth(g) /\ ~c.intr /\ c.noff \in Nat /\ c.noff > 0
    BY <1>10, <2>2 DEF ReleaseHart
  <2>12. IntrOK(t, c, stack'[t])
    <3>1. SubOK(t, g) /\ Last(stack'[t]) = g /\ Len(stack'[t]) = Len(stack[t])
      BY <1>10, <1>12
    <3> QED
      BY <2>1, <2>7, <2>8, <2>9, <2>10, <2>11, <3>1 DEF IntrOK
  <2>13. \A p \in TrapProc : p # t => ps'[p].intena = ps[p].intena
    BY DEF ReleaseProcs
  <2> QED
    BY <1>12, <2>1, <2>9, <2>12, <2>13, AloneNesting
<1>21. Counting'
  <2>1. g.pc \notin {"clockintr", "devintr"}
    BY <1>2 DEF ReleaseCase
  <2>2. slept' \in [TrapProc -> Nat] /\ \A p \in TrapProc : slept'[p] <= slept[p]
    BY DEF TrapInv, TrapTypes, ReleaseProcs
  <2> QED
    BY <1>12, <2>1, <2>2, AloneCounting
<1>22. Sleeping'
  <2>1. f.pc = "wakeup" => f.lk \subseteq {t}
    BY DEF ReleaseCase, PickPcs
  <2>2. ASSUME NEW p \in TrapProc, p = t
        PROVE  SleepOK(p)'
    <3>1. /\ ps'[p].n = ps[p].n /\ ps'[p].ticks0 = ps[p].ticks0 /\ ps'[p].state = ps[p].state
          /\ UNCHANGED <<ticks, slept>> /\ ps[p].state = "RUNNING" /\ SleepOK(p)
      BY <1>3, <2>2 DEF ReleaseProcs
    <3>2. CASE Len(stack[t]) = 2
      <4>1. stack'[p][1] = stack[p][1]
        BY <1>12, <2>2, <3>2
      <4> QED
        BY <2>2, <3>1, <3>2, <4>1, HandlerSleeping
    <3>3. CASE Len(stack[t]) = 1
      <4>1. stack'[p][1].pc = pc
        BY <1>2, <1>12, <2>2, <3>3
      <4>2. stack[p][1].pc = f.pc
        BY <1>5, <2>2, <3>3
      <4> QED
        BY <2>2, <3>1, <4>1, <4>2 DEF SleepOK, ReleaseCase
    <3> QED
      BY <1>4, <3>2, <3>3
  <2>3. /\ UNCHANGED <<ticks, slept>>
        /\ \A p \in TrapProc : ps'[p].n = ps[p].n /\ ps'[p].ticks0 = ps[p].ticks0 /\ ps'[p].state = ps[p].state
    BY DEF ReleaseProcs
  <2> QED
    BY <1>12, <2>1, <2>2, <2>3, AloneSleeping
<1> QED
  BY <1>16, <1>17, <1>18, <1>19, <1>20, <1>21, <1>22 DEF TrapInv

-----------------------------------------------------------------------------
(* Steps that neither take a lock nor give one back *)

\* From frame f to frame g of one thread, the hart from c to d.
PlainCase(f, g, c, d) ==
  \/ f.pc = "loop" /\ g.pc = "scan"
  \/ f.pc = "scan" /\ g.pc = "loop"
  \/ f.pc = "devintr" /\ g.pc = "tick" /\ d.intr = c.intr
  \/ f.pc = "tick" /\ g.pc = "sret" /\ d.intr = c.intr
  \/ f.pc = "clockintr" /\ g.pc = "wakeup" /\ d.intr = c.intr /\ g.lk \in SUBSET TrapProc
  \/ f.pc = "wakeup" /\ g.pc = "wakeup" /\ d.intr = c.intr /\ g.lk \in SUBSET TrapProc
  \/ f.pc = "user" /\ g.pc \in {"sys_sleep", "sys_uptime"} /\ d.intr = TRUE
  \/ f.pc = "usertrapret" /\ g.pc = "user" /\ d.intr = FALSE
  \/ f.pc = "ticks0" /\ g.pc = "while" /\ d.intr = c.intr
  \/ f.pc = "slept" /\ g.pc = "usertrapret" /\ d.intr = c.intr

PlainFrame(t, f, g) == f.sub = "-" /\ g.sub = "-" /\ g \in FrameSet /\ GoOn(t, g)

PlainHart(h, t, f, g, c) ==
  /\ c \in HartSet /\ HartBecomes(h, c) /\ PlainCase(f, g, hart[h], c)
  /\ c.cur = t /\ c.noff = hart[h].noff /\ c.intena = hart[h].intena

\* Such a step keeps the locks and what the interrupts are in its thread.
LEMMA PlainStep ==
  ASSUME TrapInv, NEW h \in TrapHart, NEW t, t = hart[h].cur, NEW f, f = Last(stack[t]),
         NEW g, NEW c, PlainFrame(t, f, g), PlainHart(h, t, f, g, c), spin' = spin,
         \A p \in TrapProc : /\ ps'[p].state = "RUNNING" <=> ps[p].state = "RUNNING"
                             /\ ps'[p].intena = ps[p].intena
  PROVE  Stacks' /\ Placed' /\ Locks' /\ Nesting'
<1>1. /\ f.pc \in HandlerPcs <=> Len(stack[t]) = 2
      /\ f.pc \in ProcPcs <=> (Len(stack[t]) = 1 /\ t \in TrapProc)
      /\ f.pc \in SchedulerPcs <=> (Len(stack[t]) = 1 /\ t \notin TrapProc)
      /\ Len(stack[t]) = 1 \/ Len(stack[t]) = 2
  BY Before
<1>2. StackOK(t, stack[t]) /\ IntrOK(t, hart[h], stack[t]) /\ hart[h] \in HartSet
  BY Before
<1>3. TakenBy(h) = Taken(t, f) /\ MarkedBy(h) = Marked(t, f)
  BY Before
<1>4. PlainCase(f, g, hart[h], c) /\ f.sub = "-" /\ g.sub = "-"
  BY DEF PlainFrame, PlainHart
<1>5. /\ Alone(h) /\ hart'[h] = c
      /\ Len(stack'[t]) = Len(stack[t]) /\ Last(stack'[t]) = g
      /\ stack'[t][1] = IF Len(stack[t]) = 1 THEN g ELSE stack[t][1]
      /\ Len(stack[t]) = 2 => stack'[t][2] = g
  <2>1. g \in FrameSet /\ GoOn(t, g) /\ c \in HartSet /\ HartBecomes(h, c) /\ c.cur = t
    BY DEF PlainFrame, PlainHart
  <2> QED
    BY <2>1, FrameStep
<1>6. /\ Len(stack[t]) = 1 => g.pc \in (IF t \in TrapProc THEN ProcPcs ELSE SchedulerPcs)
      /\ Len(stack[t]) = 2 => g.pc \in HandlerPcs /\ g.pc \notin {"yield", "yielded"}
  BY <1>1, <1>4 DEF PlainCase, ProcPcs, SchedulerPcs, HandlerPcs
<1>7. FrameOK(t, g) /\ SubOK(t, g)
  BY <1>4 DEF FrameOK, SubOK, PlainCase, PickPcs
<1>8. Held(t, g) = Held(t, f)
  BY <1>4 DEF Held, PlainCase, TicksPcs, OwnPcs, PickPcs
<1>9. Depth(g) = Depth(f)
  BY <1>4 DEF Depth, PlainCase, TicksPcs, OwnPcs, PickPcs
<1>10. Stacks'
  <2>1. StackOK(t, stack'[t])
    BY <1>2, <1>5, <1>6, StackGoesOn
  <2> QED
    BY <1>5, <1>7, <2>1, AloneStacks
<1>11. Placed'
  BY <1>5, AlonePlaced
<1>12. Locks'
  <2>1. Taken(t, g) = Taken(t, f) /\ Marked(t, g) = Marked(t, f)
    BY <1>4, <1>8 DEF Taken, Marked
  <2> QED
    BY <1>3, <1>5, <2>1, AloneLocks
<1>13. Nesting'
  <2>1. f.pc \in {"loop", "scan", "user", "usertrapret", "slept"} => Depth(f) = 0
    BY <1>4 DEF Depth, TicksPcs, OwnPcs, PickPcs
  <2>2. f.pc \in {"loop", "scan", "user", "usertrapret", "slept"} => Len(stack[t]) = 1
    BY <1>1 DEF ProcPcs, SchedulerPcs
  <2>3. f.pc # "yielded" /\ f.pc \notin {"awake", "forkret"} /\ g.pc \notin {"awake", "yielded"}
    BY <1>4 DEF PlainCase
  <2>4. c.intr = hart[h].intr \/ (Depth(f) = 0 /\ Len(stack[t]) = 1)
    BY <1>4, <2>1, <2>2 DEF PlainCase
  <2>5. /\ g.pc = "user" => c.intr = FALSE
        /\ g.pc \in {"sys_sleep", "sys_uptime", "relock", "slept"} => c.intr = TRUE
    BY <1>4 DEF PlainCase
  <2>6. Len(stack[t]) = 1 /\ t \in TrapProc => Depth(f) = 0 \/ f.pc = "ticks0"
    BY <1>1, <1>4, <2>1 DEF PlainCase, ProcPcs
  <2>7. c.noff = hart[h].noff /\ c.intena = hart[h].intena
    BY DEF PlainHart
  <2>8. /\ hart[h].noff = Depth(f) /\ hart[h].noff \in Nat
        /\ hart[h].noff > 0 => ~hart[h].intr
        /\ Len(stack[t]) = 2 => ~hart[h].intr
        /\ hart[h].noff > 0 /\ Len(stack[t]) = 2 => ~hart[h].intena
        /\ hart[h].noff > 0 /\ Len(stack[t]) = 1 /\ t \in TrapProc /\ f.pc = "ticks0" => hart[h].intena
    BY <1>2, <2>3 DEF IntrOK, HartSet
  <2>9. IntrOK(t, c, stack'[t])
    BY <1>5, <1>7, <1>9, <2>4, <2>5, <2>6, <2>7, <2>8 DEF IntrOK
  <2> QED
    BY <1>5, <2>3, <2>9, AloneNesting
<1> QED
  BY <1>10, <1>11, <1>12, <1>13

\* What it may do to the processes: to its own, and nothing in a handler.
PlainProcs(t, f) ==
  /\ ps' \in [TrapProc -> PsSet] /\ slept' \in [TrapProc -> Nat]
  /\ \A p \in TrapProc : p # t => ps'[p] = ps[p] /\ slept'[p] = slept[p]
  /\ t \in TrapProc => /\ ps'[t].state = ps[t].state /\ ps'[t].intena = ps[t].intena
                       /\ slept'[t] <= slept[t]
  /\ f.pc \in HandlerPcs => UNCHANGED <<ps, slept>>
  /\ f.pc = "ticks0" => ps'[t].ticks0 = ticks /\ slept'[t] = 0

\* When the step neither counts a tick nor wakes anybody it keeps the invariant.
LEMMA PlainKeeps ==
  ASSUME TrapInv, NEW h \in TrapHart, NEW t, t = hart[h].cur, NEW f, f = Last(stack[t]),
         NEW g, NEW c, PlainFrame(t, f, g), PlainHart(h, t, f, g, c), PlainProcs(t, f),
         UNCHANGED <<spin, ticks, tpanic>>, f.pc \notin {"clockintr", "wakeup"}
  PROVE  TrapInv'
<1>1. /\ t \in Thread
      /\ f.pc \in HandlerPcs <=> Len(stack[t]) = 2
      /\ Len(stack[t]) = 1 \/ Len(stack[t]) = 2
      /\ t \in TrapProc => ps[t].state = "RUNNING" /\ SleepOK(t)
  BY Before
<1>2. /\ Alone(h) /\ hart'[h] = c /\ hart' \in [TrapHart -> HartSet]
      /\ stack' \in [Thread -> Seq(FrameSet)]
      /\ Last(stack'[t]) = g
      /\ stack'[t][1] = IF Len(stack[t]) = 1 THEN g ELSE stack[t][1]
  <2>1. g \in FrameSet /\ GoOn(t, g) /\ c \in HartSet /\ HartBecomes(h, c) /\ c.cur = t
    BY DEF PlainFrame, PlainHart
  <2> QED
    BY <2>1, FrameStep
<1>3. \A p \in TrapProc : /\ ps'[p].state = "RUNNING" <=> ps[p].state = "RUNNING"
                          /\ ps'[p].intena = ps[p].intena
  BY DEF PlainProcs
<1>4. Stacks' /\ Placed' /\ Locks' /\ Nesting'
  BY <1>3, PlainStep
<1>5. TrapTypes'
  BY <1>2 DEF TrapInv, TrapTypes, PlainProcs
<1>6. PlainCase(f, g, hart[h], c)
  BY DEF PlainHart
<1>7. Counting'
  <2>1. g.pc \notin {"clockintr", "devintr"}
    BY <1>6 DEF PlainCase
  <2>2. ASSUME NEW p \in TrapProc
        PROVE  slept'[p] <= slept[p]
    <3>1. slept[p] \in Nat
      BY DEF TrapInv, TrapTypes
    <3>2. CASE p = t
      BY <3>2 DEF PlainProcs
    <3>3. CASE p # t
      BY <3>1, <3>3 DEF PlainProcs
    <3> QED
      BY <3>2, <3>3
  <2>3. slept' \in [TrapProc -> Nat]
    BY DEF PlainProcs
  <2> QED
    BY <1>2, <2>1, <2>2, <2>3, AloneCounting
<1>8. Sleeping'
  <2>1. ASSUME NEW p \in TrapProc, p = t
        PROVE  SleepOK(p)'
    <3>1. CASE Len(stack[t]) = 2
      <4>1. UNCHANGED <<ps, slept>>
        BY <1>1, <3>1 DEF PlainProcs
      <4>2. stack'[p][1] = stack[p][1] /\ SleepOK(p) /\ ps[p].state = "RUNNING"
        BY <1>1, <1>2, <2>1, <3>1
      <4> QED
        BY <1>1, <2>1, <3>1, <4>1, <4>2, HandlerSleeping
    <3>2. CASE Len(stack[t]) = 1
      <4>1. stack'[p][1].pc = g.pc
        BY <1>2, <2>1, <3>2
      <4>2. ps'[p].state # "SLEEPING"
        BY <1>1, <2>1 DEF PlainProcs
      <4>3. g.pc \notin {"sleep", "sched", "awake", "relock", "slept"}
        BY <1>6 DEF PlainCase
      <4>4. g.pc = "while" => ticks' = ps'[p].ticks0 + slept'[p]
        BY <1>6, <2>1 DEF PlainCase, PlainProcs, TrapInv, TrapTypes
      <4> QED
        BY <4>1, <4>2, <4>3, <4>4 DEF SleepOK
    <3> QED
      BY <1>1, <3>1, <3>2
  <2>2. \A p \in TrapProc : p # t => ps'[p] = ps[p] /\ slept'[p] = slept[p]
    BY DEF PlainProcs
  <2> QED
    BY <1>2, <2>1, <2>2, AloneSleeping
<1> QED
  BY <1>4, <1>5, <1>7, <1>8 DEF TrapInv

-----------------------------------------------------------------------------
(* The clock *)

\* A process in sleep has tickslock, and one on the way to sched its own lock.
LEMMA SleeperHasLock ==
  ASSUME TrapInv, NEW p \in TrapProc, stack[p][1].pc \in {"sleep", "sched"}
  PROVE  \E k \in TrapHart : /\ hart[k].cur = p
                             /\ Last(stack[p]).pc = stack[p][1].pc
                             /\ stack[p][1].pc = "sleep" => Ticklock \in TakenBy(k)
                             /\ stack[p][1].pc = "sched" => p \in TakenBy(k)
<1>1. p \in Thread /\ StackOK(p, stack[p]) /\ FrameOK(p, Last(stack[p]))
  BY DEF TrapInv, Stacks, Thread
<1>2. Last(stack[p]).pc = stack[p][1].pc
  <2>1. Len(stack[p]) = 1
    BY <1>1 DEF StackOK, Interruptible
  <2> QED
    BY <2>1 DEF Last
<1>3. PICK k \in TrapHart : hart[k].cur = p
  BY <1>2 DEF TrapInv, Placed
<1>4. p \in LockId /\ Ticklock \in LockId
  BY DEF LockId
<1>5. CASE stack[p][1].pc = "sleep"
  <2>1. Ticklock \in Held(p, Last(stack[p])) /\ Last(stack[p]).lk # Ticklock
    BY <1>1, <1>2, <1>4, <1>5 DEF Held, TicksPcs, FrameOK
  <2>2. Ticklock \in TakenBy(k)
    BY <1>3, <1>4, <2>1 DEF TakenBy, Taken
  <2> QED
    BY <1>2, <1>3, <1>5, <2>2
<1>6. CASE stack[p][1].pc = "sched"
  <2>1. p \in Held(p, Last(stack[p])) /\ Last(stack[p]).sub # "swap"
    BY <1>1, <1>2, <1>4, <1>6 DEF Held, OwnPcs, FrameOK
  <2>2. p \in TakenBy(k)
    BY <1>3, <1>4, <2>1 DEF TakenBy, Taken
  <2> QED
    BY <1>2, <1>3, <1>6, <2>2
<1> QED
  BY <1>5, <1>6

\* A tick goes on in step with slept, also when ticks wraps around.
LEMMA TickCounts ==
  ASSUME NEW R \in Nat \ {0}, NEW x \in 0..(R - 1), NEW z \in 0..(R - 1), NEW w \in Nat,
         w < R - 1, x = z + w \/ x = z + w - R
  PROVE  LET y == (x + 1) % R IN y = z + (w + 1) \/ y = z + (w + 1) - R
<1>1. CASE x + 1 < R
  <2>1. (x + 1) % R = x + 1
    BY <1>1
  <2> QED
    BY <2>1
<1>2. CASE x + 1 = R
  <2>1. (x + 1) % R = 0
    BY <1>2
  <2> QED
    BY <1>2, <2>1
<1> QED
  BY <1>1, <1>2

\* clockintr keeps the invariant: whoever has now slept long enough is in the
\* set that wakeup goes through, and no process is between its look at ticks and
\* its sleep, since that takes tickslock.
LEMMA ClockKeeps ==
  ASSUME TrapInv, NEW h \in TrapHart, clockintr(h)
  PROVE  TrapInv'
<1>0. PICK t : t = hart[h].cur
  OBVIOUS
<1>1. PICK f : f = Last(stack[t])
  OBVIOUS
<1>2. /\ t \in Thread /\ f \in FrameSet /\ hart[h] \in HartSet
      /\ f.pc \in HandlerPcs <=> Len(stack[t]) = 2
      /\ TakenBy(h) = Taken(t, f)
  BY <1>0, <1>1, Before
<1>3. PICK g : g = [pc |-> "wakeup", sub |-> "-", lk |-> TrapProc]
  OBVIOUS
<1>4. g \in FrameSet /\ g.pc = "wakeup" /\ g.sub = "-" /\ g.lk = TrapProc
  BY <1>3 DEF FrameSet, HandlerPcs
<1>5. /\ f.pc = "clockintr" /\ f.sub = "-" /\ GoOn(t, g)
      /\ ticks' = (ticks + 1) % TickRange
      /\ slept' = [p \in TrapProc |-> IF ps[p].n > 0 THEN slept[p] + 1 ELSE 0]
      /\ UNCHANGED <<hart, spin, ps, tpanic>>
  BY <1>0, <1>1, <1>3 DEF clockintr, Runs, TopFrame, Last, Frame
<1>6. HartBecomes(h, hart[h])
  BY <1>5 DEF HartBecomes, TrapInv, TrapTypes
<1>7. /\ Alone(h) /\ stack' \in [Thread -> Seq(FrameSet)] /\ Last(stack'[t]) = g
      /\ stack'[t][1] = IF Len(stack[t]) = 1 THEN g ELSE stack[t][1]
  BY <1>0, <1>2, <1>4, <1>5, <1>6, FrameStep
<1>8. PlainFrame(t, f, g) /\ PlainHart(h, t, f, g, hart[h])
  <2>1. PlainCase(f, g, hart[h], hart[h])
    BY <1>4, <1>5 DEF PlainCase
  <2> QED
    BY <1>0, <1>2, <1>4, <1>5, <1>6, <2>1 DEF PlainFrame, PlainHart
<1>9. Stacks' /\ Placed' /\ Locks' /\ Nesting'
  <2>1. spin' = spin /\ ps' = ps
    BY <1>5
  <2> QED
    BY <1>0, <1>1, <1>8, <2>1, PlainStep
<1>10. h = Hart0 /\ TickBound
  BY <1>0, <1>1, <1>5 DEF TrapInv, Counting
<1>11. TickRange \in Nat \ {0} /\ slept \in [TrapProc -> Nat] /\ ticks \in 0..(TickRange - 1)
  BY TrapAssumption DEF TrapInv, TrapTypes
<1>12. ticks' \in 0..(TickRange - 1) /\ slept' \in [TrapProc -> Nat]
  BY <1>5, <1>11
<1>13. TrapTypes'
  BY <1>5, <1>7, <1>12 DEF TrapInv, TrapTypes
<1>14. Counting'
  <2>1. \A p \in TrapProc : slept'[p] <= TickRange - 1
    BY <1>5, <1>10, <1>11 DEF TickBound
  <2>2. hart'[h].cur = t
    BY <1>0, <1>7 DEF Alone
  <2>3. \A k \in TrapHart : k # h => stack'[hart'[k].cur] = stack[hart[k].cur]
    BY <1>7, Current DEF Alone
  <2>4. \A k \in TrapHart : Last(stack'[hart'[k].cur]).pc = "clockintr" => k = Hart0
    BY <1>10, <2>3 DEF TrapInv, Counting
  <2>5. Last(stack'[hart'[Hart0].cur]).pc \notin {"devintr", "clockintr"}
    BY <1>4, <1>7, <1>10, <2>2
  <2> QED
    BY <2>1, <2>4, <2>5 DEF Counting
<1>15. Sleeping'
  <2> SUFFICES ASSUME NEW p \in TrapProc
               PROVE  SleepOK(p)'
    BY DEF Sleeping
  <2>1. SleepOK(p) /\ p \in Thread
    BY DEF TrapInv, Sleeping, Thread
  <2>2. Len(stack[t]) = 2
    BY <1>2, <1>5 DEF HandlerPcs
  <2>3. stack'[p][1] = stack[p][1]
    BY <1>0, <1>7, <2>1, <2>2 DEF Alone
  <2>4. Waking(p)'
    BY <1>2, <1>4, <1>7 DEF Waking
  <2>5. stack[p][1].pc # "sleep"
    <3> SUFFICES ASSUME stack[p][1].pc = "sleep" PROVE FALSE
      OBVIOUS
    <3>1. PICK k \in TrapHart : hart[k].cur = p /\ Last(stack[p]).pc = "sleep" /\ Ticklock \in TakenBy(k)
      BY SleeperHasLock
    <3>2. Ticklock \in TakenBy(h)
      BY <1>2, <1>5 DEF Taken, Held, TicksPcs, LockId
    <3>3. k = h
      BY <3>1, <3>2 DEF TrapInv, Locks, LockId
    <3> QED
      BY <1>0, <1>1, <1>5, <3>1, <3>3
  <2>6. ps[p].n \in Nat /\ ps[p].ticks0 \in 0..(TickRange - 1) /\ slept[p] \in Nat /\ slept[p] < TickRange - 1
    BY <1>10, <1>11 DEF TrapInv, TrapTypes, PsSet, TickBound
  <2>7. slept'[p] = IF ps[p].n > 0 THEN slept[p] + 1 ELSE 0
    BY <1>5
  <2>8. ps[p].n > 0 /\ (ticks = ps[p].ticks0 + slept[p] \/ ticks = ps[p].ticks0 + slept[p] - TickRange)
        => (ticks' = ps[p].ticks0 + slept'[p] \/ ticks' = ps[p].ticks0 + slept'[p] - TickRange)
    BY <1>5, <1>11, <2>6, <2>7, TickCounts
  <2>9. slept[p] >= ps[p].n => slept'[p] >= ps[p].n
    BY <2>6, <2>7
  <2> QED
    BY <1>5, <2>1, <2>3, <2>4, <2>5, <2>8, <2>9 DEF SleepOK
<1> QED
  BY <1>9, <1>13, <1>14, <1>15 DEF TrapInv

\* wakeup passes a process over, or makes it RUNNABLE, only when its lock is free:
\* not between its last look at ticks and SLEEPING.
LEMMA WakeupKeeps ==
  ASSUME TrapInv, NEW h \in TrapHart, NEW t, t = hart[h].cur, NEW f, f = Last(stack[t]),
         f.pc = "wakeup", f.sub = "-", NEW p \in f.lk \ {t}, ~spin[p].locked,
         ps' = [ps EXCEPT ![p].state = IF @ = "SLEEPING" THEN "RUNNABLE" ELSE @],
         GoOn(t, [f EXCEPT !.lk = (f.lk \ {t}) \ {p}]),
         UNCHANGED <<hart, spin, ticks, slept, tpanic>>
  PROVE  TrapInv'
<1>2. /\ t \in Thread /\ f \in FrameSet /\ hart[h] \in HartSet /\ FrameOK(t, f)
      /\ f.pc \in HandlerPcs <=> Len(stack[t]) = 2
      /\ t \in TrapProc => ps[t].state = "RUNNING" /\ SleepOK(t)
  BY Before
<1>3. PICK g : g = [f EXCEPT !.lk = (f.lk \ {t}) \ {p}]
  OBVIOUS
<1>4. /\ f.lk \in SUBSET TrapProc /\ p \in TrapProc /\ p # t
      /\ g \in FrameSet /\ g.pc = "wakeup" /\ g.sub = "-" /\ g.lk = (f.lk \ {t}) \ {p}
  BY <1>2, <1>3 DEF FrameSet, FrameOK
<1>5. GoOn(t, g)
  BY <1>3
<1>6. HartBecomes(h, hart[h])
  BY DEF HartBecomes, TrapInv, TrapTypes
<1>7. /\ Alone(h) /\ stack' \in [Thread -> Seq(FrameSet)] /\ Last(stack'[t]) = g
      /\ stack'[t][1] = IF Len(stack[t]) = 1 THEN g ELSE stack[t][1]
  BY <1>2, <1>4, <1>5, <1>6, FrameStep
<1>8. PlainFrame(t, f, g) /\ PlainHart(h, t, f, g, hart[h])
  <2>1. PlainCase(f, g, hart[h], hart[h])
    BY <1>4 DEF PlainCase
  <2> QED
    BY <1>2, <1>4, <1>5, <1>6, <2>1 DEF PlainFrame, PlainHart
<1>9. /\ ps' \in [TrapProc -> PsSet]
      /\ \A q \in TrapProc : q # p => ps'[q] = ps[q]
      /\ ps'[p].n = ps[p].n /\ ps'[p].ticks0 = ps[p].ticks0 /\ ps'[p].intena = ps[p].intena
      /\ ps'[p].state = IF ps[p].state = "SLEEPING" THEN "RUNNABLE" ELSE ps[p].state
  <2>1. ps \in [TrapProc -> PsSet]
    BY DEF TrapInv, TrapTypes
  <2>2. PICK st : st = IF ps[p].state = "SLEEPING" THEN "RUNNABLE" ELSE ps[p].state
    OBVIOUS
  <2>3. ps' = [ps EXCEPT ![p] = [ps[p] EXCEPT !.state = st]]
    BY <1>4, <2>1, <2>2
  <2>4. ps[p] \in PsSet /\ st \in {"RUNNABLE", "RUNNING", "SLEEPING"}
    BY <1>4, <2>1, <2>2 DEF PsSet
  <2>5. PICK z : z = [ps[p] EXCEPT !.state = st]
    OBVIOUS
  <2>6. /\ z \in PsSet /\ z.n = ps[p].n /\ z.ticks0 = ps[p].ticks0 /\ z.intena = ps[p].intena
        /\ z.state = st
    BY <2>4, <2>5 DEF PsSet
  <2> QED
    BY <1>4, <2>1, <2>2, <2>3, <2>5, <2>6
<1>10. Stacks' /\ Placed' /\ Locks' /\ Nesting'
  <2>1. \A q \in TrapProc : /\ ps'[q].state = "RUNNING" <=> ps[q].state = "RUNNING"
                            /\ ps'[q].intena = ps[q].intena
    BY <1>9
  <2> QED
    BY <1>8, <2>1, PlainStep
<1>11. TrapTypes'
  BY <1>7, <1>9 DEF TrapInv, TrapTypes
<1>12. Counting'
  <2>1. slept' \in [TrapProc -> Nat] /\ \A q \in TrapProc : slept'[q] <= slept[q]
    BY DEF TrapInv, TrapTypes
  <2> QED
    BY <1>4, <1>7, <2>1, AloneCounting
<1>13. Sleeping'
  <2> SUFFICES ASSUME NEW q \in TrapProc
               PROVE  SleepOK(q)'
    BY DEF Sleeping
  <2>1. SleepOK(q) /\ q \in Thread
    BY DEF TrapInv, Sleeping, Thread
  <2>2. Len(stack[t]) = 2
    BY <1>2 DEF HandlerPcs
  <2>3. stack'[q][1] = stack[q][1]
    BY <1>7, <2>1, <2>2 DEF Alone
  <2>4. CASE q = t
    BY <1>2, <1>4, <1>9, <2>2, <2>3, <2>4, HandlerSleeping
  <2>5. CASE q # t /\ q # p
    <3>1. Waking(q) => Waking(q)'
      BY <1>2, <1>4, <1>7, <2>5 DEF Waking, Alone
    <3> QED
      BY <1>9, <2>1, <2>3, <2>5, <3>1 DEF SleepOK
  <2>6. CASE q = p
    <3>1. stack[q][1].pc # "sched"
      BY <1>4, <2>6, SleeperHasLock DEF TrapInv, Locks, LockId
    <3>2. ps'[q].state # "SLEEPING"
      BY <1>9, <2>6
    <3> QED
      BY <1>9, <2>1, <2>3, <2>6, <3>1, <3>2 DEF SleepOK
  <2> QED
    BY <2>4, <2>5, <2>6
<1> QED
  BY <1>10, <1>11, <1>12, <1>13 DEF TrapInv

-----------------------------------------------------------------------------
(* Switching *)

\* sched keeps the invariant: it does not panic, and the p->lock that it leaves
\* with is the one that the scheduler of its hart takes over.
LEMMA SchedKeeps ==
  ASSUME TrapInv, NEW h \in TrapHart, NEW t, t = hart[h].cur, NEW f, f = Last(stack[t]),
         NEW st, NEW pc, sched(h, t, st, pc), f.sub = "-",
         \/ f.pc = "yield" /\ st = "RUNNABLE" /\ pc = "yielded"
         \/ f.pc = "sched" /\ st = "SLEEPING" /\ pc = "awake"
  PROVE  TrapInv'
<1>1. /\ t \in Thread /\ f \in FrameSet /\ hart[h] \in HartSet
      /\ StackOK(t, stack[t]) /\ IntrOK(t, hart[h], stack[t])
      /\ f.pc \in HandlerPcs <=> Len(stack[t]) = 2
      /\ f.pc \in ProcPcs <=> (Len(stack[t]) = 1 /\ t \in TrapProc)
      /\ f.pc \in {"yield", "yielded"} => t \in TrapProc
      /\ Len(stack[t]) = 1 => stack[t][1] = f
      /\ t \in TrapProc => ps[t].state = "RUNNING" /\ SleepOK(t)
      /\ TakenBy(h) = Taken(t, f) /\ MarkedBy(h) = Marked(t, f)
  BY Before
<1>2. /\ t \in TrapProc /\ t \in LockId /\ t # Ticklock /\ t # h
      /\ h \in Thread /\ h \notin TrapProc
      /\ f.pc = "yield" <=> Len(stack[t]) = 2
      /\ f.pc = "sched" <=> Len(stack[t]) = 1
  BY <1>1, TrapAssumption DEF ProcPcs, HandlerPcs, LockId, Thread
<1>3. PICK g : g = [pc |-> pc, sub |-> "-", lk |-> NoLock]
  OBVIOUS
<1>4. g \in FrameSet /\ g.pc = pc /\ g.sub = "-"
  BY <1>3 DEF FrameSet, HandlerPcs, ProcPcs
<1>5. /\ GoOn(t, g) /\ UNCHANGED <<spin, ticks, slept>>
      /\ ps' = [ps EXCEPT ![t].state = st, ![t].intena = hart[h].intena]
      /\ hart' = [hart EXCEPT ![h].cur = h]
  BY <1>3 DEF sched, Frame
<1>6. /\ stack' \in [Thread -> Seq(FrameSet)]
      /\ \A u \in Thread : u # t => stack'[u] = stack[u]
      /\ Len(stack'[t]) = Len(stack[t]) /\ Last(stack'[t]) = g
      /\ stack'[t][1] = IF Len(stack[t]) = 1 THEN g ELSE stack[t][1]
      /\ Len(stack[t]) = 2 => stack'[t][2] = g
  BY <1>1, <1>4, <1>5, GoOnStack DEF TrapInv
<1>7. /\ hart' \in [TrapHart -> HartSet] /\ hart'[h].cur = h
      /\ hart'[h].noff = hart[h].noff /\ hart'[h].intr = hart[h].intr
      /\ \A k \in TrapHart : k # h => hart'[k] = hart[k]
  <2>1. hart \in [TrapHart -> HartSet] /\ hart[h] \in HartSet /\ h \in Thread
    BY <1>2 DEF TrapInv, TrapTypes
  <2>2. PICK z : z = [hart[h] EXCEPT !.cur = h]
    OBVIOUS
  <2>3. z \in HartSet /\ z.cur = h /\ z.noff = hart[h].noff /\ z.intr = hart[h].intr
    BY <2>1, <2>2 DEF HartSet
  <2>4. hart' = [hart EXCEPT ![h] = z]
    BY <1>5, <2>1, <2>2
  <2> QED
    BY <2>1, <2>3, <2>4
<1>8. /\ ps' \in [TrapProc -> PsSet]
      /\ ps'[t].state = st /\ ps'[t].intena = hart[h].intena
      /\ ps'[t].n = ps[t].n /\ ps'[t].ticks0 = ps[t].ticks0
      /\ \A q \in TrapProc : q # t => ps'[q] = ps[q]
  <2>1. ps \in [TrapProc -> PsSet] /\ hart[h].intena \in BOOLEAN /\ st \in {"RUNNABLE", "SLEEPING"}
    BY <1>1 DEF TrapInv, TrapTypes, HartSet
  <2>2. PICK z : z = [ps[t] EXCEPT !.state = st, !.intena = hart[h].intena]
    OBVIOUS
  <2>3. ps' = [ps EXCEPT ![t] = z]
    BY <1>2, <1>5, <2>1, <2>2
  <2>4. /\ z \in PsSet /\ z.n = ps[t].n /\ z.ticks0 = ps[t].ticks0 /\ z.intena = hart[h].intena
        /\ z.state = st
    BY <1>2, <2>1, <2>2 DEF PsSet
  <2> QED
    BY <1>2, <2>1, <2>3, <2>4
<1>9. hart[h].noff = 1 /\ ~hart[h].intr /\ Depth(f) = 1
  <2>1. Depth(f) = 1
    BY DEF Depth, OwnPcs
  <2> QED
    BY <1>1, <2>1 DEF IntrOK
<1>10. \A m \in LockId : (m \in Taken(t, f) <=> m = t) /\ (m \in Marked(t, f) <=> m = t)
  BY <1>2 DEF Taken, Marked, Held, TicksPcs, OwnPcs, PickPcs
<1>11. tpanic' = FALSE
  <2>1. holding(h, t)
    BY <1>1, <1>2, <1>10 DEF holding, TrapInv, Locks
  <2>2. hart[h].noff = 1
    BY <1>9
  <2> QED
    BY <1>9, <2>1, <2>2 DEF sched, TrapInv, TrapTypes
<1>12. /\ Len(stack[h]) = 1 /\ stack'[h] = stack[h]
       /\ Last(stack'[h]) = [pc |-> "back", sub |-> "-", lk |-> t]
  <2>1. Len(stack[h]) = 1 /\ stack[h][1] = [pc |-> "back", sub |-> "-", lk |-> t]
    BY <1>2 DEF TrapInv, Placed
  <2>2. stack'[h] = stack[h]
    BY <1>2, <1>6
  <2> QED
    BY <2>1, <2>2 DEF Last
<1>13. \A k \in TrapHart : k # h => hart'[k].cur = hart[k].cur /\ hart[k].cur # t
                                    /\ stack'[hart[k].cur] = stack[hart[k].cur]
  BY <1>6, <1>7, Current
<1>14. TrapTypes'
  BY <1>5, <1>6, <1>7, <1>8, <1>11 DEF TrapInv, TrapTypes
<1>15. Stacks'
  <2>1. FrameOK(t, g)
    BY <1>4 DEF FrameOK, PickPcs
  <2>2. StackOK(t, stack'[t])
    <3>1. /\ Len(stack[t]) = 1 => g.pc \in (IF t \in TrapProc THEN ProcPcs ELSE SchedulerPcs)
          /\ Len(stack[t]) = 2 => g.pc \in HandlerPcs /\ t \in TrapProc
      BY <1>2, <1>4 DEF ProcPcs, HandlerPcs
    <3>2. StackOK(t, stack[t])
      BY <1>1
    <3> QED
      BY <1>6, <3>1, <3>2, StackGoesOn
  <2> QED
    BY <1>6, <2>1, <2>2 DEF TrapInv, Stacks
<1>16. Placed'
  <2>1. \A k \in TrapHart : hart'[k].cur = k \/ hart'[k].cur \in TrapProc
    BY <1>7 DEF TrapInv, Placed
  <2>2. \A k \in TrapHart : k # h => hart'[k].cur # h
    BY <1>2, <1>13 DEF TrapInv, Placed
  <2>3. \A j, k \in TrapHart : hart'[j].cur = hart'[k].cur => j = k
    BY <1>7, <1>13, <2>2 DEF TrapInv, Placed
  <2>4. \A p \in TrapProc : ps'[p].state = "RUNNING" <=> \E k \in TrapHart : hart'[k].cur = p
    <3>1. \A k \in TrapHart : hart'[k].cur # t
      BY <1>2, <1>7, <1>13
    <3>2. ps'[t].state # "RUNNING"
      BY <1>8
    <3>3. \A p \in TrapProc : p # t =>
            ((\E k \in TrapHart : hart'[k].cur = p) <=> (\E k \in TrapHart : hart[k].cur = p))
      BY <1>2, <1>7, <1>13
    <3> QED
      BY <1>8, <3>1, <3>2, <3>3 DEF TrapInv, Placed
  <2>5. \A k \in TrapHart : hart'[k].cur # k =>
          Len(stack'[k]) = 1 /\ stack'[k][1] = [pc |-> "back", sub |-> "-", lk |-> hart'[k].cur]
    <3> SUFFICES ASSUME NEW k \in TrapHart, hart'[k].cur # k
                 PROVE  Len(stack'[k]) = 1
                        /\ stack'[k][1] = [pc |-> "back", sub |-> "-", lk |-> hart'[k].cur]
      OBVIOUS
    <3>1. k # h /\ hart'[k].cur = hart[k].cur
      BY <1>7, <1>13
    <3>2. stack'[k] = stack[k]
      BY <1>2, <1>6, TrapAssumption DEF Thread
    <3> QED
      BY <3>1, <3>2 DEF TrapInv, Placed
  <2>6. \A p \in TrapProc : ps'[p].state # "RUNNING" => Last(stack'[p]).pc \in {"forkret", "awake", "yielded"}
    <3>1. Last(stack'[t]).pc \in {"awake", "yielded"}
      BY <1>4, <1>6
    <3>2. \A p \in TrapProc : p # t => stack'[p] = stack[p] /\ ps'[p] = ps[p]
      BY <1>6, <1>8 DEF Thread
    <3> QED
      BY <3>1, <3>2 DEF TrapInv, Placed
  <2> QED
    BY <2>1, <2>3, <2>4, <2>5, <2>6 DEF Placed
<1>17. Locks'
  <2>1. \A k \in TrapHart : k # h => TakenBy(k)' = TakenBy(k) /\ MarkedBy(k)' = MarkedBy(k)
    BY <1>13 DEF TakenBy, MarkedBy
  <2>2. /\ TakenBy(h)' = Taken(h, [pc |-> "back", sub |-> "-", lk |-> t])
        /\ MarkedBy(h)' = Marked(h, [pc |-> "back", sub |-> "-", lk |-> t])
    BY <1>7, <1>12 DEF TakenBy, MarkedBy
  <2>3. \A m \in LockId : (m \in TakenBy(h)' <=> m = t) /\ (m \in MarkedBy(h)' <=> m = t)
    BY <2>2 DEF Taken, Marked, Held, TicksPcs, OwnPcs, PickPcs
  <2>4. \A m \in LockId, k \in TrapHart : /\ m \in TakenBy(k)' <=> m \in TakenBy(k)
                                          /\ m \in MarkedBy(k)' <=> m \in MarkedBy(k)
    BY <1>1, <1>10, <2>1, <2>3
  <2> QED
    BY <1>5, <2>4 DEF TrapInv, Locks
<1>18. Nesting'
  <2>1. \A k \in TrapHart : k # h => IntrOK(hart'[k].cur, hart'[k], stack'[hart'[k].cur])
    BY <1>7, <1>13 DEF TrapInv, Nesting
  <2>2. IntrOK(h, hart'[h], stack'[h])
    <3>1. PICK e : e = [pc |-> "back", sub |-> "-", lk |-> t]
      OBVIOUS
    <3>2. e.pc = "back" /\ e.sub = "-" /\ Last(stack'[h]) = e
      BY <1>12, <3>1
    <3>3. Depth(e) = 1 /\ SubOK(h, e)
      BY <3>2 DEF Depth, SubOK, PickPcs, TicksPcs, OwnPcs
    <3>4. hart'[h].noff = 1 /\ ~hart'[h].intr /\ Len(stack'[h]) = 1 /\ h \notin TrapProc
      BY <1>2, <1>7, <1>9, <1>12
    <3> QED
      BY <3>2, <3>3, <3>4 DEF IntrOK
  <2>3. /\ f.pc = "sched" => hart[h].intena
        /\ f.pc = "yield" => ~hart[h].intena
    <3>1. IntrOK(t, hart[h], stack[t])
      BY <1>1
    <3>2. hart[h].noff > 0
      BY <1>9
    <3> QED
      BY <1>2, <3>1, <3>2 DEF IntrOK
  <2>4. \A p \in TrapProc : /\ Last(stack'[p]).pc = "awake" => ps'[p].intena
                            /\ Last(stack'[p]).pc = "yielded" => ~ps'[p].intena
    BY <1>4, <1>6, <1>8, <2>3 DEF TrapInv, Nesting, Thread
  <2> QED
    BY <1>7, <2>1, <2>2, <2>4 DEF Nesting
<1>19. Counting'
  <2>1. Last(stack'[hart'[h].cur]).pc = "back"
    BY <1>7, <1>12
  <2>2. \A k \in TrapHart : k # h => stack'[hart'[k].cur] = stack[hart[k].cur]
    BY <1>13
  <2>3. \A k \in TrapHart : Last(stack'[hart'[k].cur]).pc = "clockintr" => k = Hart0
    BY <2>1, <2>2 DEF TrapInv, Counting
  <2>4. Last(stack'[hart'[Hart0].cur]).pc \in {"devintr", "clockintr"} => TickBound
    BY <2>1, <2>2, TrapAssumption DEF TrapInv, Counting
  <2>5. TickBound' <=> TickBound
    BY <1>5 DEF TickBound
  <2> QED
    BY <1>5, <2>3, <2>4, <2>5 DEF TrapInv, Counting
<1>20. Sleeping'
  <2> SUFFICES ASSUME NEW p \in TrapProc
               PROVE  SleepOK(p)'
    BY DEF Sleeping
  <2>1. SleepOK(p) /\ p \in Thread
    BY DEF TrapInv, Sleeping, Thread
  <2>2. Waking(p) => Waking(p)'
    BY <1>6 DEF Waking
  <2>3. CASE p # t
    BY <1>5, <1>6, <1>8, <2>1, <2>2, <2>3 DEF SleepOK
  <2>4. CASE p = t /\ f.pc = "yield"
    <3>1. stack'[p][1] = stack[p][1] /\ stack[p][1].pc # "sched"
      BY <1>1, <1>2, <1>6, <2>4 DEF StackOK, Interruptible
    <3>2. p = hart[h].cur /\ Len(stack[p]) = 2
      BY <1>2, <2>4
    <3>3. /\ ps'[p].n = ps[p].n /\ ps'[p].ticks0 = ps[p].ticks0 /\ ps'[p].state # "SLEEPING"
          /\ UNCHANGED <<ticks, slept>>
      BY <1>5, <1>8, <2>4
    <3> QED
      BY <3>1, <3>2, <3>3, HandlerSleeping
  <2>5. CASE p = t /\ f.pc = "sched"
    <3>1. stack'[p][1].pc = "awake" /\ stack[p][1].pc = "sched"
      BY <1>1, <1>2, <1>4, <1>6, <2>5
    <3>2. ps'[p].n = ps[p].n /\ ps'[p].ticks0 = ps[p].ticks0 /\ UNCHANGED <<ticks, slept>>
      BY <1>5, <1>8, <2>5
    <3> QED
      BY <2>1, <2>2, <3>1, <3>2 DEF SleepOK
  <2> QED
    BY <2>3, <2>4, <2>5
<1> QED
  BY <1>14, <1>15, <1>16, <1>17, <1>18, <1>19, <1>20 DEF TrapInv

\* The scheduler switches to a process that no hart executes, with its p->lock,
\* which the process will give back.
LEMMA PickKeeps ==
  ASSUME TrapInv, NEW h \in TrapHart, hart[h].cur = h, NEW f, f = Last(stack[h]),
         f.pc = "pick", f.sub = "-", NEW t, t = f.lk, ps[t].state = "RUNNABLE",
         ps' = [ps EXCEPT ![t].state = "RUNNING"], hart' = [hart EXCEPT ![h].cur = t],
         GoOn(h, [f EXCEPT !.pc = "back"]), UNCHANGED <<spin, ticks, slept, tpanic>>
  PROVE  TrapInv'
<1>1. /\ h \in Thread /\ f \in FrameSet /\ hart[h] \in HartSet /\ FrameOK(h, f)
      /\ StackOK(h, stack[h]) /\ IntrOK(h, hart[h], stack[h])
      /\ f.pc \in SchedulerPcs <=> (Len(stack[h]) = 1 /\ h \notin TrapProc)
      /\ TakenBy(h) = Taken(h, f) /\ MarkedBy(h) = Marked(h, f)
  BY Before
<1>2. /\ t \in TrapProc /\ t \in LockId /\ t \in Thread /\ t # Ticklock /\ t # h
      /\ Len(stack[h]) = 1 /\ h \notin TrapProc /\ h \notin LockId \ {Ticklock}
  BY <1>1, TrapAssumption DEF SchedulerPcs, LockId, Thread, FrameOK, PickPcs
<1>3. PICK g : g = [pc |-> "back", sub |-> "-", lk |-> t]
  OBVIOUS
<1>4. g \in FrameSet /\ g.pc = "back" /\ g.sub = "-" /\ g.lk = t /\ g = [f EXCEPT !.pc = "back"]
  BY <1>1, <1>2, <1>3 DEF FrameSet, SchedulerPcs
<1>5. /\ stack' \in [Thread -> Seq(FrameSet)]
      /\ \A u \in Thread : u # h => stack'[u] = stack[u]
      /\ Len(stack'[h]) = 1 /\ Last(stack'[h]) = g /\ stack'[h][1] = g
  BY <1>1, <1>2, <1>4, GoOnStack DEF TrapInv
<1>6. /\ hart' \in [TrapHart -> HartSet] /\ hart'[h].cur = t
      /\ hart'[h].noff = hart[h].noff /\ hart'[h].intr = hart[h].intr
      /\ \A k \in TrapHart : k # h => hart'[k] = hart[k]
  <2>1. hart \in [TrapHart -> HartSet] /\ hart[h] \in HartSet /\ t \in Thread
    BY <1>2 DEF TrapInv, TrapTypes
  <2>2. PICK z : z = [hart[h] EXCEPT !.cur = t]
    OBVIOUS
  <2>3. z \in HartSet /\ z.cur = t /\ z.noff = hart[h].noff /\ z.intr = hart[h].intr
    BY <2>1, <2>2 DEF HartSet
  <2>4. hart' = [hart EXCEPT ![h] = z]
    BY <2>1, <2>2
  <2> QED
    BY <2>1, <2>3, <2>4
<1>7. /\ ps' \in [TrapProc -> PsSet]
      /\ ps'[t].state = "RUNNING" /\ ps'[t].intena = ps[t].intena
      /\ ps'[t].n = ps[t].n /\ ps'[t].ticks0 = ps[t].ticks0
      /\ \A q \in TrapProc : q # t => ps'[q] = ps[q]
  <2>1. ps \in [TrapProc -> PsSet] /\ ps[t] \in PsSet
    BY <1>2 DEF TrapInv, TrapTypes
  <2>2. PICK z : z = [ps[t] EXCEPT !.state = "RUNNING"]
    OBVIOUS
  <2>3. ps' = [ps EXCEPT ![t] = z]
    BY <1>2, <2>1, <2>2
  <2>4. /\ z \in PsSet /\ z.n = ps[t].n /\ z.ticks0 = ps[t].ticks0 /\ z.intena = ps[t].intena
        /\ z.state = "RUNNING"
    BY <2>1, <2>2 DEF PsSet
  <2> QED
    BY <1>2, <2>1, <2>3, <2>4
<1>8. \A k \in TrapHart : hart[k].cur # t
  BY <1>2 DEF TrapInv, Placed
<1>9. PICK e \in FrameSet : e = Last(stack[t])
  BY <1>2, Classes DEF TrapInv
<1>10. /\ e.pc \in {"forkret", "awake", "yielded"} /\ e.sub = "-"
       /\ e.pc \in HandlerPcs <=> Len(stack[t]) = 2
       /\ stack'[t] = stack[t]
  <2>1. FrameOK(t, e)
    BY <1>2, <1>9 DEF TrapInv, Stacks
  <2>2. e.pc \in {"forkret", "awake", "yielded"}
    BY <1>2, <1>9 DEF TrapInv, Placed
  <2>3. e.pc \in HandlerPcs <=> Len(stack[t]) = 2
    BY <1>2, <1>9, Classes DEF TrapInv
  <2> QED
    BY <1>2, <1>5, <2>1, <2>2, <2>3 DEF FrameOK
<1>11. \A k \in TrapHart : k # h => hart'[k].cur = hart[k].cur /\ hart[k].cur # h
                                    /\ stack'[hart[k].cur] = stack[hart[k].cur]
  BY <1>5, <1>6, Current
<1>12. hart[h].noff = 1 /\ ~hart[h].intr
  <2>1. Depth(f) = 1
    BY DEF Depth, PickPcs, TicksPcs, OwnPcs
  <2> QED
    BY <1>1, <2>1 DEF IntrOK
<1>13. TrapTypes'
  BY <1>5, <1>6, <1>7 DEF TrapInv, TrapTypes
<1>14. Stacks'
  <2>1. FrameOK(h, g)
    BY <1>2, <1>4 DEF FrameOK
  <2>2. StackOK(h, stack'[h])
    BY <1>2, <1>4, <1>5 DEF StackOK, SchedulerPcs
  <2> QED
    BY <1>5, <2>1, <2>2 DEF TrapInv, Stacks
<1>15. Placed'
  <2>1. \A k \in TrapHart : hart'[k].cur = k \/ hart'[k].cur \in TrapProc
    BY <1>2, <1>6 DEF TrapInv, Placed
  <2>2. \A j, k \in TrapHart : hart'[j].cur = hart'[k].cur => j = k
    BY <1>6, <1>8 DEF TrapInv, Placed
  <2>3. \A p \in TrapProc : ps'[p].state = "RUNNING" <=> \E k \in TrapHart : hart'[k].cur = p
    <3>1. \A p \in TrapProc : p # t =>
            ((\E k \in TrapHart : hart'[k].cur = p) <=> (\E k \in TrapHart : hart[k].cur = p))
      BY <1>2, <1>6, <1>11
    <3> QED
      BY <1>6, <1>7, <3>1 DEF TrapInv, Placed
  <2>4. \A k \in TrapHart : hart'[k].cur # k =>
          Len(stack'[k]) = 1 /\ stack'[k][1] = [pc |-> "back", sub |-> "-", lk |-> hart'[k].cur]
    <3> SUFFICES ASSUME NEW k \in TrapHart, hart'[k].cur # k
                 PROVE  Len(stack'[k]) = 1
                        /\ stack'[k][1] = [pc |-> "back", sub |-> "-", lk |-> hart'[k].cur]
      OBVIOUS
    <3>1. CASE k = h
      BY <1>3, <1>5, <1>6, <3>1
    <3>2. CASE k # h
      <4>1. stack'[k] = stack[k] /\ hart'[k].cur = hart[k].cur
        BY <1>5, <1>11, <3>2 DEF Thread
      <4>2. Len(stack[k]) = 1 /\ stack[k][1] = [pc |-> "back", sub |-> "-", lk |-> hart[k].cur]
        BY <4>1 DEF TrapInv, Placed
      <4> QED
        BY <4>1, <4>2
    <3> QED
      BY <3>1, <3>2
  <2>5. \A p \in TrapProc : ps'[p].state # "RUNNING" => Last(stack'[p]).pc \in {"forkret", "awake", "yielded"}
    <3>1. \A p \in TrapProc : stack'[p] = stack[p]
      BY <1>2, <1>5 DEF Thread
    <3> QED
      BY <1>7, <3>1 DEF TrapInv, Placed
  <2> QED
    BY <2>1, <2>2, <2>3, <2>4, <2>5 DEF Placed
<1>16. Locks'
  <2>1. \A k \in TrapHart : k # h => TakenBy(k)' = TakenBy(k) /\ MarkedBy(k)' = MarkedBy(k)
    BY <1>11 DEF TakenBy, MarkedBy
  <2>2. TakenBy(h)' = Taken(t, e) /\ MarkedBy(h)' = Marked(t, e)
    BY <1>6, <1>9, <1>10 DEF TakenBy, MarkedBy
  <2>3. \A m \in LockId : (m \in Taken(t, e) <=> m = t) /\ (m \in Marked(t, e) <=> m = t)
    BY <1>2, <1>10 DEF Taken, Marked, Held, TicksPcs, OwnPcs, PickPcs
  <2>4. \A m \in LockId : (m \in Taken(h, f) <=> m = t) /\ (m \in Marked(h, f) <=> m = t)
    BY <1>2 DEF Taken, Marked, Held, TicksPcs, OwnPcs, PickPcs
  <2>5. \A m \in LockId, k \in TrapHart : /\ m \in TakenBy(k)' <=> m \in TakenBy(k)
                                          /\ m \in MarkedBy(k)' <=> m \in MarkedBy(k)
    BY <1>1, <2>1, <2>2, <2>3, <2>4
  <2> QED
    BY <2>5 DEF TrapInv, Locks
<1>17. Nesting'
  <2>1. \A k \in TrapHart : k # h => IntrOK(hart'[k].cur, hart'[k], stack'[hart'[k].cur])
    BY <1>6, <1>11 DEF TrapInv, Nesting
  <2>2. IntrOK(t, hart'[h], stack'[t])
    <3>1. Depth(e) = 1 /\ SubOK(t, e)
      BY <1>10 DEF Depth, SubOK, OwnPcs
    <3>2. Len(stack[t]) = 2 => e.pc = "yielded"
      BY <1>10 DEF HandlerPcs
    <3>3. Len(stack[t]) = 1 => e.pc # "yielded"
      BY <1>10 DEF HandlerPcs
    <3> QED
      BY <1>6, <1>9, <1>10, <1>12, <3>1, <3>2, <3>3 DEF IntrOK
  <2>3. \A p \in TrapProc : stack'[p] = stack[p] /\ ps'[p].intena = ps[p].intena
    BY <1>2, <1>5, <1>7 DEF Thread
  <2>4. \A p \in TrapProc : /\ Last(stack'[p]).pc = "awake" => ps'[p].intena
                            /\ Last(stack'[p]).pc = "yielded" => ~ps'[p].intena
    BY <2>3 DEF TrapInv, Nesting
  <2> QED
    BY <1>6, <2>1, <2>2, <2>4 DEF Nesting
<1>18. Counting'
  <2>1. Last(stack'[hart'[h].cur]).pc \notin {"clockintr", "devintr"}
    BY <1>6, <1>9, <1>10
  <2>2. \A k \in TrapHart : k # h => stack'[hart'[k].cur] = stack[hart[k].cur]
    BY <1>11
  <2>3. \A k \in TrapHart : Last(stack'[hart'[k].cur]).pc = "clockintr" => k = Hart0
    BY <2>1, <2>2 DEF TrapInv, Counting
  <2>4. Last(stack'[hart'[Hart0].cur]).pc \in {"devintr", "clockintr"} => TickBound
    BY <2>1, <2>2, TrapAssumption DEF TrapInv, Counting
  <2>5. TickBound' <=> TickBound
    BY DEF TickBound
  <2> QED
    BY <2>3, <2>4, <2>5 DEF TrapInv, Counting
<1>19. Sleeping'
  <2> SUFFICES ASSUME NEW p \in TrapProc
               PROVE  SleepOK(p)'
    BY DEF Sleeping
  <2>1. SleepOK(p) /\ stack'[p] = stack[p]
    BY <1>2, <1>5 DEF TrapInv, Sleeping, Thread
  <2>2. Waking(p) => Waking(p)'
    BY <1>5 DEF Waking
  <2>3. /\ ps'[p].n = ps[p].n /\ ps'[p].ticks0 = ps[p].ticks0
        /\ ps'[p].state = "SLEEPING" => ps[p].state = "SLEEPING"
    BY <1>7
  <2> QED
    BY <2>1, <2>2, <2>3 DEF SleepOK
<1> QED
  BY <1>13, <1>14, <1>15, <1>16, <1>17, <1>18, <1>19 DEF TrapInv

-----------------------------------------------------------------------------
(* Entering and leaving a handler *)

\* A thread that can be interrupted holds no lock.
LEMMA NoLocksHeld ==
  ASSUME NEW t, NEW f, f.pc \in Interruptible \union {"devintr", "sret"}, f.sub = "-"
  PROVE  Depth(f) = 0 /\ Taken(t, f) = {} /\ Marked(t, f) = {}
<1>1. f.pc \notin TicksPcs /\ f.pc \notin OwnPcs /\ f.pc \notin PickPcs /\ f.pc # "sleep"
  BY DEF Interruptible, TicksPcs, OwnPcs, PickPcs
<1>2. Held(t, f) = {}
  BY <1>1 DEF Held
<1>3. Taken(t, f) = {} /\ Marked(t, f) = {}
  BY <1>2 DEF Taken, Marked
<1>4. Depth(f) = 0
  BY <1>1 DEF Depth
<1> QED
  BY <1>3, <1>4

\* An interrupt comes only where no lock is held and no handler runs.
LEMMA InterruptKeeps ==
  ASSUME TrapInv, NEW h \in TrapHart, Interrupt(h)
  PROVE  TrapInv'
<1>0. PICK t : t = hart[h].cur
  OBVIOUS
<1>1. PICK f : f = Last(stack[t])
  OBVIOUS
<1>2. /\ t \in Thread /\ f \in FrameSet /\ hart[h] \in HartSet
      /\ StackOK(t, stack[t]) /\ FrameOK(t, f) /\ IntrOK(t, hart[h], stack[t]) /\ SubOK(t, f)
      /\ f.pc \in ProcPcs <=> (Len(stack[t]) = 1 /\ t \in TrapProc)
      /\ f.pc \in SchedulerPcs <=> (Len(stack[t]) = 1 /\ t \notin TrapProc)
      /\ Len(stack[t]) = 1 \/ Len(stack[t]) = 2
      /\ Len(stack[t]) = 1 => stack[t][1] = f
      /\ t \in TrapProc => ps[t].state = "RUNNING" /\ SleepOK(t)
      /\ TakenBy(h) = Taken(t, f) /\ MarkedBy(h) = Marked(t, f)
  BY <1>0, <1>1, Before
<1>3. PICK g : g = [pc |-> "devintr", sub |-> "-", lk |-> NoLock]
  OBVIOUS
<1>4. g \in FrameSet /\ g.pc = "devintr" /\ g.sub = "-" /\ g.lk = NoLock
  BY <1>3 DEF FrameSet, HandlerPcs
<1>5. /\ TickBound
      /\ hart[h].intr \/ (f.pc = "user" /\ f.sub = "-")
      /\ hart' = [hart EXCEPT ![h].intr = FALSE]
      /\ stack' = [stack EXCEPT ![t] = Append(stack[t], g)]
      /\ UNCHANGED <<spin, ps, ticks, slept, tpanic>>
  BY <1>0, <1>1, <1>2, <1>3 DEF Interrupt, Runs, TopFrame, Last, Frame, TrapInv, TrapTypes
<1>6. f.pc \in Interruptible /\ f.sub = "-" /\ Len(stack[t]) = 1
  <2>1. CASE f.pc = "user" /\ f.sub = "-"
    BY <1>2, <2>1 DEF Interruptible, ProcPcs
  <2>2. CASE hart[h].intr
    <3>1. hart[h].noff = Depth(f) /\ ~(hart[h].noff > 0) /\ Len(stack[t]) = 1
      BY <1>1, <1>2, <2>2 DEF IntrOK
    <3>2. f.pc \notin TicksPcs \union OwnPcs \union PickPcs /\ f.pc # "sleep" /\ f.sub # "unlock"
      BY <3>1 DEF Depth
    <3>3. f.sub \notin {"swap", "cpu"}
      BY <1>2, <3>2 DEF SubOK, Held
    <3>4. f.sub = "-"
      BY <1>2, <3>2, <3>3 DEF FrameSet
    <3>5. f.pc \in ProcPcs \/ f.pc \in SchedulerPcs
      BY <1>2, <3>1
    <3>6. f.pc \in Interruptible
      BY <3>2, <3>5 DEF ProcPcs, SchedulerPcs, Interruptible, TicksPcs, OwnPcs, PickPcs
    <3> QED
      BY <3>1, <3>4, <3>6
  <2> QED
    BY <1>5, <2>1, <2>2
<1>7. /\ stack' \in [Thread -> Seq(FrameSet)]
      /\ \A u \in Thread : u # t => stack'[u] = stack[u]
      /\ Len(stack'[t]) = 2 /\ Last(stack'[t]) = g /\ stack'[t][1] = f /\ stack'[t][2] = g
  <2>1. PICK s : s = stack[t]
    OBVIOUS
  <2>2. s \in Seq(FrameSet) /\ Len(s) = 1 /\ s[1] = f /\ stack \in [Thread -> Seq(FrameSet)]
    BY <1>2, <1>6, <2>1 DEF TrapInv, TrapTypes
  <2>3. PICK z : z = Append(s, g)
    OBVIOUS
  <2>4. z \in Seq(FrameSet) /\ Len(z) = 2 /\ z[1] = f /\ z[2] = g
    <3>1. s \in Seq(FrameSet) /\ g \in FrameSet
      BY <1>4, <2>2
    <3>2. /\ z \in Seq(FrameSet) /\ Len(z) = Len(s) + 1
          /\ \A i \in 1..Len(s) : z[i] = s[i]
          /\ z[Len(s) + 1] = g
      BY <2>3, <3>1, SMTT(60)
    <3> QED
      BY <2>2, <3>2
  <2>5. stack' = [stack EXCEPT ![t] = z]
    BY <1>5, <2>1, <2>3
  <2> QED
    BY <1>2, <2>2, <2>4, <2>5 DEF Last
<1>8. /\ hart' \in [TrapHart -> HartSet] /\ hart'[h].cur = t
      /\ hart'[h].noff = hart[h].noff /\ hart'[h].intr = FALSE
      /\ \A k \in TrapHart : k # h => hart'[k] = hart[k]
  BY <1>0, <1>5 DEF TrapInv, TrapTypes, HartSet
<1>9. Alone(h)
  BY <1>0, <1>7, <1>8 DEF Alone
<1>10. TrapTypes'
  BY <1>5, <1>7, <1>8 DEF TrapInv, TrapTypes
<1>11. Stacks'
  <2>1. FrameOK(t, g)
    BY <1>4 DEF FrameOK, PickPcs
  <2>2. f.pc \in (IF t \in TrapProc THEN ProcPcs ELSE SchedulerPcs)
    BY <1>2, <1>6
  <2>3. StackOK(t, stack'[t])
    BY <1>4, <1>6, <1>7, <2>2 DEF StackOK, HandlerPcs
  <2> QED
    BY <1>0, <1>7, <1>9, <2>1, <2>3, AloneStacks
<1>12. Placed'
  BY <1>5, <1>9, AlonePlaced
<1>13. Depth(f) = 0 /\ Depth(g) = 0 /\ Taken(t, g) = Taken(t, f) /\ Marked(t, g) = Marked(t, f)
  BY <1>4, <1>6, NoLocksHeld
<1>14. Locks'
  BY <1>0, <1>2, <1>5, <1>7, <1>9, <1>13, AloneLocks
<1>15. Nesting'
  <2>1. SubOK(t, g)
    BY <1>4 DEF SubOK
  <2>2. hart[h].noff = 0
    BY <1>1, <1>2, <1>13 DEF IntrOK
  <2>3. IntrOK(t, hart'[h], stack'[t])
    BY <1>4, <1>7, <1>8, <1>13, <2>1, <2>2 DEF IntrOK
  <2> QED
    BY <1>0, <1>4, <1>5, <1>7, <1>9, <2>3, AloneNesting
<1>16. Counting'
  <2>1. slept' \in [TrapProc -> Nat] /\ \A p \in TrapProc : slept'[p] <= slept[p]
    BY <1>5 DEF TrapInv, TrapTypes
  <2> QED
    BY <1>0, <1>4, <1>5, <1>7, <1>9, <2>1, AloneCounting
<1>17. Sleeping'
  <2>1. f.pc # "wakeup"
    BY <1>6 DEF Interruptible
  <2>2. ASSUME NEW p \in TrapProc, p = t
        PROVE  SleepOK(p)'
    <3>1. stack'[p][1] = stack[p][1] /\ stack[p][1].pc # "sched"
      BY <1>2, <1>6, <1>7, <2>2 DEF Interruptible
    <3> QED
      BY <1>2, <1>5, <2>2, <3>1 DEF SleepOK
  <2> QED
    BY <1>0, <1>1, <1>5, <1>9, <2>1, <2>2, AloneSleeping
<1> QED
  BY <1>10, <1>11, <1>12, <1>14, <1>15, <1>16, <1>17 DEF TrapInv

\* Leaving a handler restores the interrupts of the thread below it.
LEMMA ReturnKeeps ==
  ASSUME TrapInv, NEW h \in TrapHart, TrapReturn(h)
  PROVE  TrapInv'
<1>0. PICK t : t = hart[h].cur
  OBVIOUS
<1>1. PICK f : f = Last(stack[t])
  OBVIOUS
<1>2. /\ t \in Thread /\ hart[h] \in HartSet
      /\ StackOK(t, stack[t]) /\ IntrOK(t, hart[h], stack[t])
      /\ f.pc \in HandlerPcs <=> Len(stack[t]) = 2
      /\ t \in TrapProc => ps[t].state = "RUNNING" /\ SleepOK(t)
      /\ TakenBy(h) = Taken(t, f) /\ MarkedBy(h) = Marked(t, f)
  BY <1>0, <1>1, Before
<1>3. f.pc = "sret" /\ f.sub = "-"
  BY <1>0, <1>1 DEF TrapReturn, Runs, TopFrame, Last
<1>4. Len(stack[t]) = 2
  BY <1>2, <1>3 DEF HandlerPcs
<1>5. PICK g : g = stack[t][1]
  OBVIOUS
<1>6. PICK r : r = SubSeq(stack[t], 1, Len(stack[t]) - 1)
  OBVIOUS
<1>7. r \in Seq(FrameSet) /\ Len(r) = 1 /\ r[1] = g
  <2>1. PICK s : s = stack[t]
    OBVIOUS
  <2>2. s \in Seq(FrameSet) /\ Len(s) = 2 /\ s[1] = g /\ r = SubSeq(s, 1, 1)
    BY <1>2, <1>4, <1>5, <1>6, <2>1 DEF TrapInv, TrapTypes
  <2> QED
    BY <2>2
<1>8. /\ g \in FrameSet /\ g.pc \in Interruptible /\ g.sub = "-"
      /\ g.pc \in (IF t \in TrapProc THEN ProcPcs ELSE SchedulerPcs)
  <2>1. g \in FrameSet
    <3>1. 1 \in 1..Len(r)
      BY <1>7
    <3> QED
      BY <1>7, <3>1
  <2>2. stack[t][1].pc \in Interruptible /\ stack[t][1].sub = "-"
    BY <1>2, <1>4 DEF StackOK
  <2>3. stack[t][1].pc \in (IF t \in TrapProc THEN ProcPcs ELSE SchedulerPcs)
    BY <1>2 DEF StackOK
  <2> QED
    BY <1>5, <2>1, <2>2, <2>3
<1>9. PICK e : e = (g.pc # "user")
  OBVIOUS
<1>10. /\ stack' = [stack EXCEPT ![t] = r]
       /\ hart' = [hart EXCEPT ![h].intr = e]
       /\ UNCHANGED <<spin, ps, ticks, slept, tpanic>>
  BY <1>0, <1>6, <1>7, <1>9 DEF TrapReturn
<1>11. /\ stack' \in [Thread -> Seq(FrameSet)]
       /\ \A u \in Thread : u # t => stack'[u] = stack[u]
       /\ Len(stack'[t]) = 1 /\ Last(stack'[t]) = g /\ stack'[t][1] = g
  BY <1>2, <1>7, <1>10 DEF TrapInv, TrapTypes, Last
<1>12. /\ hart' \in [TrapHart -> HartSet] /\ hart'[h].cur = t
       /\ hart'[h].noff = hart[h].noff /\ hart'[h].intr = e
       /\ \A k \in TrapHart : k # h => hart'[k] = hart[k]
  <2>1. e \in BOOLEAN
    BY <1>9
  <2> QED
    BY <1>0, <1>10, <2>1 DEF TrapInv, TrapTypes, HartSet
<1>13. Alone(h)
  BY <1>0, <1>11, <1>12 DEF Alone
<1>14. TrapTypes'
  BY <1>10, <1>11, <1>12 DEF TrapInv, TrapTypes
<1>15. Stacks'
  <2>1. FrameOK(t, g)
    BY <1>8 DEF FrameOK, PickPcs, Interruptible
  <2>2. StackOK(t, stack'[t])
    BY <1>8, <1>11 DEF StackOK
  <2> QED
    BY <1>0, <1>11, <1>13, <2>1, <2>2, AloneStacks
<1>16. Placed'
  BY <1>10, <1>13, AlonePlaced
<1>17. Depth(f) = 0 /\ Depth(g) = 0 /\ Taken(t, g) = Taken(t, f) /\ Marked(t, g) = Marked(t, f)
  BY <1>3, <1>8, NoLocksHeld
<1>18. Locks'
  BY <1>0, <1>2, <1>10, <1>11, <1>13, <1>17, AloneLocks
<1>19. Nesting'
  <2>1. SubOK(t, g)
    BY <1>8 DEF SubOK
  <2>2. hart[h].noff = 0
    BY <1>1, <1>2, <1>17 DEF IntrOK
  <2>3. g.pc = "user" => ~e
    BY <1>9
  <2>4. g.pc # "user" => e
    BY <1>9
  <2>5. IntrOK(t, hart'[h], stack'[t])
    BY <1>11, <1>12, <1>17, <2>1, <2>2, <2>3, <2>4 DEF IntrOK
  <2>6. g.pc \notin {"awake", "yielded"}
    BY <1>8 DEF Interruptible
  <2> QED
    BY <1>0, <1>10, <1>11, <1>13, <2>5, <2>6, AloneNesting
<1>20. Counting'
  <2>1. slept' \in [TrapProc -> Nat] /\ \A p \in TrapProc : slept'[p] <= slept[p]
    BY <1>10 DEF TrapInv, TrapTypes
  <2>2. g.pc \notin {"clockintr", "devintr"}
    BY <1>8 DEF Interruptible
  <2> QED
    BY <1>0, <1>11, <1>13, <2>1, <2>2, AloneCounting
<1>21. Sleeping'
  <2>1. f.pc # "wakeup"
    BY <1>3
  <2>2. ASSUME NEW p \in TrapProc, p = t
        PROVE  SleepOK(p)'
    BY <1>0, <1>2, <1>4, <1>5, <1>10, <1>11, <2>2, HandlerSleeping
  <2> QED
    BY <1>0, <1>1, <1>10, <1>13, <2>1, <2>2, AloneSleeping
<1> QED
  BY <1>14, <1>15, <1>16, <1>18, <1>19, <1>20, <1>21 DEF TrapInv

\* kill touches only the state of a process that does not run.
LEMMA KillKeeps ==
  ASSUME TrapInv, NEW p \in TrapProc, TrapKill(p)
  PROVE  TrapInv'
<1>1. UNCHANGED <<hart, stack, spin, ticks, slept, tpanic>>
  BY DEF TrapKill
<1>2. /\ ps' \in [TrapProc -> PsSet]
      /\ \A q \in TrapProc :
           /\ ps'[q].n = ps[q].n /\ ps'[q].ticks0 = ps[q].ticks0 /\ ps'[q].intena = ps[q].intena
           /\ ps'[q].state = "RUNNING" <=> ps[q].state = "RUNNING"
           /\ ps'[q].state = "SLEEPING" => ps[q].state = "SLEEPING"
  <2>1. ps \in [TrapProc -> PsSet] /\ ps[p] \in PsSet
    BY DEF TrapInv, TrapTypes
  <2>2. PICK st : st = IF ps[p].state = "SLEEPING" THEN "RUNNABLE" ELSE ps[p].state
    OBVIOUS
  <2>3. PICK z : z = [ps[p] EXCEPT !.killed = TRUE, !.state = st]
    OBVIOUS
  <2>4. ps' = [ps EXCEPT ![p] = z]
    BY <2>1, <2>2, <2>3 DEF TrapKill
  <2>5. st \in {"RUNNABLE", "RUNNING", "SLEEPING"}
    BY <2>1, <2>2 DEF PsSet
  <2>6. /\ z \in PsSet /\ z.n = ps[p].n /\ z.ticks0 = ps[p].ticks0 /\ z.intena = ps[p].intena
        /\ z.state = st
    BY <2>1, <2>3, <2>5 DEF PsSet
  <2> QED
    BY <2>1, <2>2, <2>4, <2>6
<1>3. TrapTypes'
  BY <1>1, <1>2 DEF TrapInv, TrapTypes
<1>4. Stacks' /\ Locks'
  BY <1>1 DEF TrapInv, Stacks, Locks, TakenBy, MarkedBy
<1>5. Placed'
  BY <1>1, <1>2 DEF TrapInv, Placed
<1>6. Nesting'
  BY <1>1, <1>2 DEF TrapInv, Nesting
<1>7. Counting'
  BY <1>1 DEF TrapInv, Counting, TickBound
<1>8. Sleeping'
  BY <1>1, <1>2 DEF TrapInv, Sleeping, SleepOK, Waking
<1> QED
  BY <1>3, <1>4, <1>5, <1>6, <1>7, <1>8 DEF TrapInv

-----------------------------------------------------------------------------
(* The actions *)

\* A release that changes nothing else.
LEMMA ReleaseAlone ==
  ASSUME TrapInv, NEW h \in TrapHart, NEW t, t = hart[h].cur, NEW f, f = Last(stack[t]),
         NEW l, NEW pc, release(h, l, pc), f.sub = "-", ReleaseCase(t, f, l, pc),
         f.pc \notin {"yielded", "awake"}, UNCHANGED <<hart, ps, ticks, slept>>
  PROVE  TrapInv'
<1>1. /\ hart \in [TrapHart -> HartSet] /\ hart' = hart /\ UNCHANGED <<ticks, slept>>
      /\ ps' = ps /\ ps \in [TrapProc -> PsSet]
  BY DEF TrapInv, TrapTypes
<1>2. PICK c : c = hart[h]
  OBVIOUS
<1>3. HartBecomes(h, c)
  BY <1>1, <1>2 DEF HartBecomes
<1>4. c \in HartSet
  BY <1>1, <1>2
<1>5. ReleaseHart(h, t, f, c)
  BY <1>2, <1>3, <1>4 DEF ReleaseHart
<1>6. ReleaseProcs(t)
  BY <1>1 DEF ReleaseProcs
<1> QED
  BY <1>5, <1>6, ReleaseKeeps

\* The release at the end of sched, after intena is restored.
LEMMA ResumedKeeps ==
  ASSUME TrapInv, NEW h \in TrapHart, NEW t, t = hart[h].cur, NEW f, f = Last(stack[t]),
         NEW pc, Resumed(h, t, pc), f.sub = "-", t \in TrapProc,
         \/ f.pc = "yielded" /\ pc = "sret"
         \/ f.pc = "awake" /\ pc = "relock"
  PROVE  TrapInv'
<1>1. /\ hart \in [TrapHart -> HartSet] /\ ps \in [TrapProc -> PsSet]
      /\ hart[h] \in HartSet /\ ps[t] \in PsSet
  BY DEF TrapInv, TrapTypes
<1>2. PICK e : e = ps[t].intena
  OBVIOUS
<1>3. PICK c : c = [hart[h] EXCEPT !.intena = e]
  OBVIOUS
<1>4. e \in BOOLEAN
  BY <1>1, <1>2 DEF PsSet
<1>5. c \in HartSet /\ c.cur = t /\ c.noff = hart[h].noff /\ c.intr = hart[h].intr /\ c.intena = e
  BY <1>1, <1>3, <1>4 DEF HartSet
<1>6. HartBecomes(h, c)
  BY <1>1, <1>2, <1>3 DEF Resumed, HartBecomes
<1>7. release(h, t, pc) /\ UNCHANGED <<ticks, slept>> /\ ps' = [ps EXCEPT ![t].intena = FALSE]
  BY DEF Resumed
<1>8. /\ ps' \in [TrapProc -> PsSet]
      /\ \A p \in TrapProc :
           /\ ps'[p].n = ps[p].n /\ ps'[p].ticks0 = ps[p].ticks0 /\ ps'[p].state = ps[p].state
           /\ p # t => ps'[p].intena = ps[p].intena
  <2>1. PICK z : z = [ps[t] EXCEPT !.intena = FALSE]
    OBVIOUS
  <2>2. /\ z \in PsSet /\ z.n = ps[t].n /\ z.ticks0 = ps[t].ticks0 /\ z.state = ps[t].state
    BY <1>1, <2>1 DEF PsSet
  <2>3. ps' = [ps EXCEPT ![t] = z]
    BY <1>1, <1>7, <2>1
  <2> QED
    BY <1>1, <2>2, <2>3
<1>9. ReleaseCase(t, f, t, pc)
  BY DEF ReleaseCase
<1>10. ReleaseHart(h, t, f, c)
  BY <1>2, <1>5, <1>6 DEF ReleaseHart
<1>11. ReleaseProcs(t)
  BY <1>7, <1>8 DEF ReleaseProcs
<1>12. release(h, t, pc)
  BY <1>7
<1> QED
  BY <1>9, <1>10, <1>11, <1>12, ReleaseKeeps

\* A plain step that changes only the frame.
LEMMA PlainAlone ==
  ASSUME TrapInv, NEW h \in TrapHart, NEW t, t = hart[h].cur, NEW f, f = Last(stack[t]),
         f.sub = "-", NEW pc, GoOn(t, Frame(pc)), UNCHANGED <<hart, spin, ps, ticks, slept, tpanic>>,
         \/ f.pc = "scan" /\ pc = "loop"
         \/ f.pc = "devintr" /\ pc = "tick"
         \/ f.pc = "tick" /\ pc = "sret"
         \/ f.pc = "slept" /\ pc = "usertrapret"
  PROVE  TrapInv'
<1>1. /\ hart \in [TrapHart -> HartSet] /\ hart' = hart /\ UNCHANGED <<spin, ticks, tpanic>>
      /\ ps' = ps /\ ps \in [TrapProc -> PsSet] /\ slept' = slept /\ slept \in [TrapProc -> Nat]
  BY DEF TrapInv, TrapTypes
<1>2. PICK c : c = hart[h]
  OBVIOUS
<1>3. HartBecomes(h, c)
  BY <1>1, <1>2 DEF HartBecomes
<1>4. c \in HartSet /\ c.cur = t /\ c.noff = hart[h].noff /\ c.intr = hart[h].intr
      /\ c.intena = hart[h].intena
  BY <1>1, <1>2
<1>5. PICK g : g = Frame(pc)
  OBVIOUS
<1>6. g.pc = pc /\ g.sub = "-" /\ g \in FrameSet
  BY <1>5 DEF Frame, FrameSet, ProcPcs, SchedulerPcs, HandlerPcs
<1>7. PlainFrame(t, f, g)
  BY <1>5, <1>6 DEF PlainFrame
<1>8. PlainHart(h, t, f, g, c)
  <2>1. PlainCase(f, g, hart[h], c)
    BY <1>4, <1>6 DEF PlainCase
  <2> QED
    BY <1>3, <1>4, <2>1 DEF PlainHart
<1>9. PlainProcs(t, f)
  BY <1>1 DEF PlainProcs
<1>10. f.pc \notin {"clockintr", "wakeup"}
  OBVIOUS
<1> QED
  BY <1>1, <1>7, <1>8, <1>9, <1>10, PlainKeeps

\* A scheduler is executed by its own hart.
LEMMA SchedulerRuns ==
  ASSUME TrapInv, NEW h \in TrapHart, NEW pc, Runs(h, pc), pc \in SchedulerPcs
  PROVE  hart[h].cur = h
<1>1. PICK t : t = hart[h].cur
  OBVIOUS
<1>2. PICK f : f = Last(stack[t])
  OBVIOUS
<1>3. f.pc \in SchedulerPcs
  BY <1>1, <1>2 DEF Runs, TopFrame, Last
<1>4. t \notin TrapProc
  BY <1>1, <1>2, <1>3, Before
<1> QED
  BY <1>1, <1>4, Current

\* scheduler.
LEMMA SchedulerKeeps ==
  ASSUME TrapInv, NEW h \in TrapHart,
         SchedulerLoop(h) \/ SchedulerScan(h) \/ SchedulerPick(h) \/ SchedulerBack(h)
  PROVE  TrapInv'
<1>0. hart \in [TrapHart -> HartSet] /\ hart[h] \in HartSet
  BY DEF TrapInv, TrapTypes
<1>1. PICK f : f = Last(stack[h])
  OBVIOUS
<1>2. CASE SchedulerLoop(h)
  <2>1. hart[h].cur = h
    BY <1>2, SchedulerRuns DEF SchedulerLoop, SchedulerPcs
  <2>2. f.pc = "loop" /\ f.sub = "-"
    BY <1>1, <1>2, <2>1 DEF SchedulerLoop, Runs, TopFrame, Last
  <2>3. PICK c : c = [hart[h] EXCEPT !.intr = TRUE]
    OBVIOUS
  <2>4. c \in HartSet /\ c.cur = h /\ c.noff = hart[h].noff /\ c.intena = hart[h].intena
    BY <1>0, <2>1, <2>3 DEF HartSet
  <2>5. HartBecomes(h, c)
    BY <1>0, <1>2, <2>3 DEF SchedulerLoop, HartBecomes
  <2>6. PICK g : g = Frame("scan")
    OBVIOUS
  <2>7. g.pc = "scan" /\ g.sub = "-" /\ g \in FrameSet
    BY <2>6 DEF Frame, FrameSet, SchedulerPcs
  <2>8. GoOn(h, g) /\ UNCHANGED <<spin, ticks, tpanic>> /\ UNCHANGED <<ps, slept>>
    BY <1>2, <2>6 DEF SchedulerLoop
  <2>9. PlainFrame(h, f, g)
    BY <2>2, <2>7, <2>8 DEF PlainFrame
  <2>10. PlainHart(h, h, f, g, c)
    BY <2>2, <2>4, <2>5, <2>7 DEF PlainHart, PlainCase
  <2>11. PlainProcs(h, f)
    <3>1. h \notin TrapProc /\ f.pc # "ticks0"
      BY <2>2, TrapAssumption
    <3> QED
      BY <2>8, <3>1 DEF TrapInv, TrapTypes, PlainProcs
  <2>12. f.pc \notin {"clockintr", "wakeup"} /\ UNCHANGED <<spin, ticks, tpanic>>
    BY <2>2, <2>8
  <2> QED
    BY <1>1, <2>1, <2>9, <2>10, <2>11, <2>12, PlainKeeps
<1>3. CASE SchedulerScan(h)
  <2>1. hart[h].cur = h
    BY <1>3, SchedulerRuns DEF SchedulerScan, SchedulerPcs
  <2>2. f.pc = "scan" /\ f.sub = "-"
    BY <1>1, <1>3, <2>1 DEF SchedulerScan, Runs, TopFrame, Last
  <2>3. ASSUME NEW p \in TrapProc, acquire(h, p, "pick")
        PROVE  TrapInv'
    <3>1. AcquireCase(h, h, f.pc, p, "pick") /\ p \in LockId
      BY <2>2 DEF AcquireCase, LockId
    <3> QED
      BY <1>1, <2>1, <2>2, <2>3, <3>1, AcquireKeeps
  <2>4. ASSUME GoOn(h, Frame("loop")), UNCHANGED <<hart, spin, ps, ticks, slept, tpanic>>
        PROVE  TrapInv'
    BY <1>1, <2>1, <2>2, <2>4, PlainAlone
  <2> QED
    BY <1>3, <2>3, <2>4 DEF SchedulerScan
<1>4. CASE SchedulerPick(h)
  <2>1. hart[h].cur = h /\ f.pc = "pick" /\ f.sub = "-"
    BY <1>1, <1>4 DEF SchedulerPick, Runs, TopFrame, Last
  <2>2. TopFrame(h) = f
    BY <1>1 DEF TopFrame, Last
  <2>3. PICK p : p = f.lk
    OBVIOUS
  <2>4. CASE ps[p].state = "RUNNABLE"
    <3>1. /\ ps' = [ps EXCEPT ![p].state = "RUNNING"] /\ hart' = [hart EXCEPT ![h].cur = p]
          /\ GoOn(h, [f EXCEPT !.pc = "back"]) /\ UNCHANGED <<spin, ticks, slept, tpanic>>
      BY <1>4, <2>2, <2>3, <2>4 DEF SchedulerPick
    <3> QED
      BY <1>1, <2>1, <2>3, <2>4, <3>1, PickKeeps
  <2>5. CASE ps[p].state # "RUNNABLE"
    <3>1. release(h, p, "scan") /\ UNCHANGED <<hart, ps, ticks, slept>>
      BY <1>4, <2>2, <2>3, <2>5 DEF SchedulerPick
    <3>2. ReleaseCase(h, f, p, "scan") /\ f.pc \notin {"yielded", "awake"}
      BY <2>1, <2>3 DEF ReleaseCase, PickPcs
    <3> QED
      BY <1>1, <2>1, <3>1, <3>2, ReleaseAlone
  <2> QED
    BY <2>4, <2>5
<1>5. CASE SchedulerBack(h)
  <2>1. hart[h].cur = h
    BY <1>5, SchedulerRuns DEF SchedulerBack, SchedulerPcs
  <2>2. f.pc = "back" /\ f.sub = "-"
    BY <1>1, <1>5, <2>1 DEF SchedulerBack, Runs, TopFrame, Last
  <2>3. release(h, f.lk, "scan") /\ UNCHANGED <<hart, ps, ticks, slept>>
    BY <1>1, <1>5 DEF SchedulerBack, TopFrame, Last
  <2>4. ReleaseCase(h, f, f.lk, "scan") /\ f.pc \notin {"yielded", "awake"}
    BY <2>2 DEF ReleaseCase, PickPcs
  <2> QED
    BY <1>1, <2>1, <2>2, <2>3, <2>4, ReleaseAlone
<1> QED
  BY <1>2, <1>3, <1>4, <1>5

\* What a thread does at a frame that Runs names.
LEMMA Running ==
  ASSUME NEW h, NEW t, t = hart[h].cur, NEW f, f = Last(stack[t]), NEW pc
  PROVE  TopFrame(t) = f /\ (Runs(h, pc) <=> f.pc = pc /\ f.sub = "-")
  BY DEF Runs, TopFrame, Last

\* forkret, and the handler of a timer interrupt.
LEMMA HandlerKeeps ==
  ASSUME TrapInv, NEW h \in TrapHart,
         forkret(h) \/ devintr(h) \/ WakeSleepers(h) \/ TrapYield(h) \/ YieldSwitch(h)
  PROVE  TrapInv'
<1>1. PICK t : t = hart[h].cur
  OBVIOUS
<1>2. PICK f : f = Last(stack[t])
  OBVIOUS
<1>3. TopFrame(t) = f /\ \A pc : Runs(h, pc) <=> f.pc = pc /\ f.sub = "-"
  BY <1>1, <1>2, Running
<1>4. t \in Thread /\ FrameOK(t, f) /\ (f.pc \in {"yield", "yielded"} => t \in TrapProc)
  BY <1>1, <1>2, Before
<1>5. CASE forkret(h)
  <2>1. f.pc = "forkret" /\ f.sub = "-" /\ release(h, t, "usertrapret") /\ UNCHANGED <<hart, ps, ticks, slept>>
    BY <1>1, <1>3, <1>5 DEF forkret
  <2>2. ReleaseCase(t, f, t, "usertrapret") /\ f.pc \notin {"yielded", "awake"}
    BY <2>1 DEF ReleaseCase
  <2> QED
    BY <1>1, <1>2, <2>1, <2>2, ReleaseAlone
<1>6. CASE devintr(h)
  <2>1. f.pc = "devintr" /\ f.sub = "-"
    BY <1>3, <1>6 DEF devintr
  <2>2. CASE h = Hart0
    <3>1. acquire(h, Ticklock, "clockintr") /\ Ticklock \in LockId
      BY <1>6, <2>2 DEF devintr, LockId
    <3>2. AcquireCase(h, t, f.pc, Ticklock, "clockintr")
      BY <2>1, <2>2 DEF AcquireCase
    <3> QED
      BY <1>1, <1>2, <2>1, <3>1, <3>2, AcquireKeeps
  <2>3. CASE h # Hart0
    <3>1. GoOn(t, Frame("tick")) /\ UNCHANGED <<hart, spin, ps, ticks, slept, tpanic>>
      BY <1>1, <1>6, <2>3 DEF devintr
    <3> QED
      BY <1>1, <1>2, <2>1, <3>1, PlainAlone
  <2> QED
    BY <2>2, <2>3
<1>7. CASE WakeSleepers(h)
  <2>1. f.pc = "wakeup" /\ f.sub = "-"
    BY <1>3, <1>7 DEF WakeSleepers
  <2>2. PICK left : left = f.lk \ {t}
    OBVIOUS
  <2>3. CASE left # {}
    <3>1. PICK p : p = CHOOSE q \in left : TRUE
      OBVIOUS
    <3>2. p \in f.lk \ {t}
      BY <2>2, <2>3, <3>1
    <3>3. /\ ~spin[p].locked
          /\ ps' = [ps EXCEPT ![p].state = IF @ = "SLEEPING" THEN "RUNNABLE" ELSE @]
          /\ GoOn(t, [f EXCEPT !.lk = left \ {p}])
          /\ UNCHANGED <<hart, spin, ticks, slept, tpanic>>
      BY <1>1, <1>3, <1>7, <2>2, <2>3, <3>1 DEF WakeSleepers
    <3>4. GoOn(t, [f EXCEPT !.lk = (f.lk \ {t}) \ {p}])
      BY <2>2, <3>3
    <3> QED
      BY <1>1, <1>2, <2>1, <3>2, <3>3, <3>4, WakeupKeeps
  <2>4. CASE left = {}
    <3>1. release(h, Ticklock, "tick") /\ UNCHANGED <<hart, ps, ticks, slept>>
      BY <1>1, <1>3, <1>7, <2>2, <2>4 DEF WakeSleepers
    <3>2. f.lk \in SUBSET TrapProc /\ f.lk \subseteq {t}
      BY <1>4, <2>1, <2>2, <2>4 DEF FrameOK
    <3>3. ReleaseCase(t, f, Ticklock, "tick") /\ f.pc \notin {"yielded", "awake"}
      BY <2>1, <3>2 DEF ReleaseCase
    <3> QED
      BY <1>1, <1>2, <2>1, <3>1, <3>3, ReleaseAlone
  <2> QED
    BY <2>3, <2>4
<1>8. CASE TrapYield(h)
  <2>1. f.pc = "tick" /\ f.sub = "-"
    BY <1>3, <1>8 DEF TrapYield
  <2>2. CASE t \in TrapProc
    <3>1. t # h
      BY <2>2, TrapAssumption
    <3>2. acquire(h, t, "yield") /\ t \in LockId
      BY <1>1, <1>8, <2>2, <3>1 DEF TrapYield, LockId
    <3>3. AcquireCase(h, t, f.pc, t, "yield")
      BY <2>1, <2>2 DEF AcquireCase
    <3> QED
      BY <1>1, <1>2, <2>1, <3>2, <3>3, AcquireKeeps
  <2>3. CASE t \notin TrapProc
    <3>1. t = h /\ GoOn(t, Frame("sret")) /\ UNCHANGED <<hart, spin, ps, ticks, slept, tpanic>>
      BY <1>1, <1>8, <2>3 DEF TrapYield
    <3> QED
      BY <1>1, <1>2, <2>1, <3>1, PlainAlone
  <2> QED
    BY <2>2, <2>3
<1>9. CASE YieldSwitch(h)
  <2>1. CASE Runs(h, "yield") /\ sched(h, hart[h].cur, "RUNNABLE", "yielded")
    <3>1. f.pc = "yield" /\ f.sub = "-" /\ sched(h, t, "RUNNABLE", "yielded")
      BY <1>1, <1>3, <2>1
    <3> QED
      BY <1>1, <1>2, <3>1, SchedKeeps
  <2>2. CASE Runs(h, "yielded") /\ Resumed(h, hart[h].cur, "sret")
    <3>1. f.pc = "yielded" /\ f.sub = "-" /\ Resumed(h, t, "sret") /\ t \in TrapProc
      BY <1>1, <1>3, <1>4, <2>2
    <3> QED
      BY <1>1, <1>2, <3>1, ResumedKeeps
  <2> QED
    BY <1>9, <2>1, <2>2 DEF YieldSwitch
<1> QED
  BY <1>5, <1>6, <1>7, <1>8, <1>9

\* The unsigned ticks - ticks0 is slept, also when ticks has wrapped around.
LEMMA ElapsedCounts ==
  ASSUME NEW R \in Nat \ {0}, NEW x \in 0..(R - 1), NEW z \in 0..(R - 1), NEW w \in Nat,
         w <= R - 1, x = z + w \/ x = z + w - R
  PROVE  (x + R - z) % R = w
<1>1. CASE x = z + w
  <2>1. x + R - z = w + R
    BY <1>1
  <2>2. (w + R) % R = w
    OBVIOUS
  <2> QED
    BY <2>1, <2>2
<1>2. CASE x = z + w - R
  <2>1. x + R - z = w
    BY <1>2
  <2>2. w % R = w
    OBVIOUS
  <2> QED
    BY <2>1, <2>2
<1> QED
  BY <1>1, <1>2

\* The loop of sys_sleep decides as slept does.
LEMMA ElapsedDecides ==
  ASSUME TrapInv, NEW t \in TrapProc, stack[t][1].pc = "while"
  PROVE  /\ Elapsed(t) >= ps[t].n => slept[t] >= ps[t].n
         /\ Elapsed(t) < ps[t].n => slept[t] < ps[t].n
<1>1. /\ ticks \in 0..(TickRange - 1) /\ ps[t] \in PsSet /\ slept[t] \in Nat
      /\ TickRange \in Nat \ {0} /\ slept[t] <= TickRange - 1 /\ SleepOK(t)
  BY TrapAssumption DEF TrapInv, TrapTypes, Counting, Sleeping
<1>2. ps[t].ticks0 \in 0..(TickRange - 1) /\ ps[t].n \in Nat
  BY <1>1 DEF PsSet
<1>3. Elapsed(t) \in Nat
  BY <1>1, <1>2 DEF Elapsed
<1>4. CASE ps[t].n = 0
  BY <1>1, <1>3, <1>4
<1>5. CASE ps[t].n > 0
  <2>1. ticks = ps[t].ticks0 + slept[t] \/ ticks = ps[t].ticks0 + slept[t] - TickRange
    BY <1>1, <1>5 DEF SleepOK
  <2>2. Elapsed(t) = slept[t]
    BY <1>1, <1>2, <2>1, ElapsedCounts DEF Elapsed
  <2> QED
    BY <2>2
<1> QED
  BY <1>2, <1>4, <1>5

\* Between user mode and the system calls.
LEMMA CallKeeps ==
  ASSUME TrapInv, NEW h \in TrapHart, usertrap(h) \/ BackToUser(h)
  PROVE  TrapInv'
<1>1. PICK t : t = hart[h].cur
  OBVIOUS
<1>2. PICK f : f = Last(stack[t])
  OBVIOUS
<1>3. \A pc : Runs(h, pc) <=> f.pc = pc /\ f.sub = "-"
  BY <1>1, <1>2, Running
<1>4. /\ hart \in [TrapHart -> HartSet] /\ hart[h] \in HartSet
      /\ ps \in [TrapProc -> PsSet] /\ slept \in [TrapProc -> Nat]
      /\ f.pc \in ProcPcs => t \in TrapProc
  BY <1>1, <1>2, Before DEF TrapInv, TrapTypes
<1>5. PICK e : e = (f.pc = "user")
  OBVIOUS
<1>6. PICK c : c = [hart[h] EXCEPT !.intr = e]
  OBVIOUS
<1>7. /\ c \in HartSet /\ c.cur = t /\ c.noff = hart[h].noff /\ c.intena = hart[h].intena
      /\ c.intr = e
  BY <1>1, <1>4, <1>5, <1>6 DEF HartSet
<1>8. CASE usertrap(h)
  <2>1. /\ f.pc = "user" /\ f.sub = "-" /\ t \in TrapProc /\ f.pc \notin HandlerPcs
    BY <1>3, <1>4, <1>8 DEF usertrap, ProcPcs, HandlerPcs
  <2>2. e = TRUE
    BY <1>5, <2>1
  <2>3. HartBecomes(h, c)
    BY <1>4, <1>6, <1>8, <2>2 DEF usertrap, HartBecomes
  <2>4. UNCHANGED <<spin, ticks, tpanic>> /\ slept' = slept
    BY <1>8 DEF usertrap
  <2>5. PICK g : GoOn(t, g) /\ g \in {Frame("sys_sleep"), Frame("sys_uptime")}
    BY <1>1, <1>8 DEF usertrap
  <2>6. g \in FrameSet /\ g.sub = "-" /\ g.pc \in {"sys_sleep", "sys_uptime"}
    BY <2>5 DEF Frame, FrameSet, ProcPcs
  <2>7. /\ ps' \in [TrapProc -> PsSet]
        /\ \A p \in TrapProc : p # t => ps'[p] = ps[p]
        /\ ps'[t].state = ps[t].state /\ ps'[t].intena = ps[t].intena
    <3>1. (\E n \in Naps : ps' = [ps EXCEPT ![t].n = n]) \/ ps' = ps
      BY <1>1, <1>8 DEF usertrap
    <3>2. CASE ps' = ps
      BY <1>4, <3>2
    <3>3. CASE \E n \in Naps : ps' = [ps EXCEPT ![t].n = n]
      <4>1. PICK n \in Naps : ps' = [ps EXCEPT ![t].n = n]
        BY <3>3
      <4>2. n \in Nat
        BY TrapAssumption
      <4>3. PICK z : z = [ps[t] EXCEPT !.n = n]
        OBVIOUS
      <4>4. z \in PsSet /\ z.state = ps[t].state /\ z.intena = ps[t].intena
        BY <1>4, <2>1, <4>2, <4>3 DEF PsSet
      <4>5. ps' = [ps EXCEPT ![t] = z]
        BY <1>4, <2>1, <4>1, <4>3
      <4> QED
        BY <1>4, <2>1, <4>4, <4>5
    <3> QED
      BY <3>1, <3>2, <3>3
  <2>8. PlainFrame(t, f, g)
    BY <2>1, <2>5, <2>6 DEF PlainFrame
  <2>9. PlainHart(h, t, f, g, c)
    <3>1. PlainCase(f, g, hart[h], c)
      BY <1>7, <2>1, <2>2, <2>6 DEF PlainCase
    <3> QED
      BY <1>7, <2>3, <3>1 DEF PlainHart
  <2>10. PlainProcs(t, f)
    <3>1. /\ slept' \in [TrapProc -> Nat] /\ slept'[t] <= slept[t]
          /\ \A p \in TrapProc : p # t => slept'[p] = slept[p]
      BY <1>4, <2>1, <2>4
    <3>2. f.pc # "ticks0" /\ f.pc \notin HandlerPcs
      BY <2>1
    <3> QED
      BY <2>7, <3>1, <3>2 DEF PlainProcs
  <2>11. f.pc \notin {"clockintr", "wakeup"} /\ UNCHANGED <<spin, ticks, tpanic>>
    BY <2>1, <2>4
  <2> QED
    BY <1>1, <1>2, <2>8, <2>9, <2>10, <2>11, PlainKeeps
<1>9. CASE BackToUser(h)
  <2>1. /\ f.pc = "usertrapret" /\ f.sub = "-" /\ t \in TrapProc /\ f.pc \notin HandlerPcs
    BY <1>3, <1>4, <1>9 DEF BackToUser, ProcPcs, HandlerPcs
  <2>2. e = FALSE
    BY <1>5, <2>1
  <2>3. HartBecomes(h, c)
    BY <1>4, <1>6, <1>9, <2>2 DEF BackToUser, HartBecomes
  <2>4. UNCHANGED <<spin, ticks, tpanic>> /\ slept' = [slept EXCEPT ![t] = 0]
    BY <1>1, <1>9 DEF BackToUser
  <2>5. PICK g : GoOn(t, g) /\ g = Frame("user")
    BY <1>1, <1>9 DEF BackToUser
  <2>6. g \in FrameSet /\ g.sub = "-" /\ g.pc = "user"
    BY <2>5 DEF Frame, FrameSet, ProcPcs
  <2>7. /\ ps' \in [TrapProc -> PsSet]
        /\ \A p \in TrapProc : p # t => ps'[p] = ps[p]
        /\ ps'[t].state = ps[t].state /\ ps'[t].intena = ps[t].intena
    <3>1. PICK z : z = [ps[t] EXCEPT !.killed = FALSE, !.n = 0, !.ticks0 = 0]
      OBVIOUS
    <3>2. 0 \in 0..(TickRange - 1)
      BY TrapAssumption
    <3>3. z \in PsSet /\ z.state = ps[t].state /\ z.intena = ps[t].intena
      BY <1>4, <2>1, <3>1, <3>2 DEF PsSet
    <3>4. ps' = [ps EXCEPT ![t] = z]
      BY <1>1, <1>4, <1>9, <2>1, <3>1 DEF BackToUser
    <3> QED
      BY <1>4, <2>1, <3>3, <3>4
  <2>8. PlainFrame(t, f, g)
    BY <2>1, <2>5, <2>6 DEF PlainFrame
  <2>9. PlainHart(h, t, f, g, c)
    <3>1. PlainCase(f, g, hart[h], c)
      BY <1>7, <2>1, <2>2, <2>6 DEF PlainCase
    <3> QED
      BY <1>7, <2>3, <3>1 DEF PlainHart
  <2>10. PlainProcs(t, f)
    <3>1. /\ slept' \in [TrapProc -> Nat] /\ slept'[t] <= slept[t]
          /\ \A p \in TrapProc : p # t => slept'[p] = slept[p]
      BY <1>4, <2>1, <2>4
    <3>2. f.pc # "ticks0" /\ f.pc \notin HandlerPcs
      BY <2>1
    <3> QED
      BY <2>7, <3>1, <3>2 DEF PlainProcs
  <2>11. f.pc \notin {"clockintr", "wakeup"} /\ UNCHANGED <<spin, ticks, tpanic>>
    BY <2>1, <2>4
  <2> QED
    BY <1>1, <1>2, <2>8, <2>9, <2>10, <2>11, PlainKeeps
<1> QED
  BY <1>8, <1>9

\* sys_uptime and sys_sleep.
LEMMA SleepKeeps ==
  ASSUME TrapInv, NEW h \in TrapHart,
         sys_uptime(h) \/ SleepStart(h) \/ SleepWhile(h) \/ TickSleep(h) \/ SleepReturns(h)
  PROVE  TrapInv'
<1>1. PICK t : t = hart[h].cur
  OBVIOUS
<1>2. PICK f : f = Last(stack[t])
  OBVIOUS
<1>3. \A pc : Runs(h, pc) <=> f.pc = pc /\ f.sub = "-"
  BY <1>1, <1>2, Running
<1>4. /\ hart \in [TrapHart -> HartSet] /\ hart[h] \in HartSet
      /\ ps \in [TrapProc -> PsSet] /\ slept \in [TrapProc -> Nat] /\ ticks \in 0..(TickRange - 1)
      /\ f.pc \in ProcPcs => t \in TrapProc /\ Len(stack[t]) = 1
      /\ Len(stack[t]) = 1 => stack[t][1] = f
  <2>1. /\ hart \in [TrapHart -> HartSet] /\ hart[h] \in HartSet
        /\ ps \in [TrapProc -> PsSet] /\ slept \in [TrapProc -> Nat] /\ ticks \in 0..(TickRange - 1)
    BY DEF TrapInv, TrapTypes
  <2>2. /\ f.pc \in ProcPcs <=> (Len(stack[t]) = 1 /\ t \in TrapProc)
        /\ Len(stack[t]) = 1 => stack[t][1] = f
    BY <1>1, <1>2, Before
  <2> QED
    BY <2>1, <2>2
<1>5. Ticklock \in LockId /\ (t \in TrapProc => t \in LockId)
  BY DEF LockId
<1>6. CASE sys_uptime(h)
  <2>1. CASE Runs(h, "sys_uptime") /\ acquire(h, Ticklock, "uptime")
    <3>1. f.pc = "sys_uptime" /\ f.sub = "-" /\ AcquireCase(h, t, f.pc, Ticklock, "uptime")
      BY <1>3, <2>1 DEF AcquireCase
    <3> QED
      BY <1>1, <1>2, <1>5, <2>1, <3>1, AcquireKeeps
  <2>2. CASE /\ Runs(h, "uptime") /\ release(h, Ticklock, "usertrapret")
             /\ UNCHANGED <<hart, ps, ticks, slept>>
    <3>1. /\ f.pc = "uptime" /\ f.sub = "-" /\ ReleaseCase(t, f, Ticklock, "usertrapret")
          /\ f.pc \notin {"yielded", "awake"}
      BY <1>3, <2>2 DEF ReleaseCase
    <3> QED
      BY <1>1, <1>2, <2>2, <3>1, ReleaseAlone
  <2> QED
    BY <1>6, <2>1, <2>2 DEF sys_uptime
<1>7. CASE SleepStart(h)
  <2>1. CASE Runs(h, "sys_sleep") /\ acquire(h, Ticklock, "ticks0")
    <3>1. f.pc = "sys_sleep" /\ f.sub = "-" /\ AcquireCase(h, t, f.pc, Ticklock, "ticks0")
      BY <1>3, <2>1 DEF AcquireCase
    <3> QED
      BY <1>1, <1>2, <1>5, <2>1, <3>1, AcquireKeeps
  <2>2. CASE Runs(h, "ticks0")
    <3>1. f.pc = "ticks0" /\ f.sub = "-" /\ t \in TrapProc /\ f.pc \notin HandlerPcs
      BY <1>3, <1>4, <2>2 DEF ProcPcs, HandlerPcs
    <3>2. PICK c : c = hart[h]
      OBVIOUS
    <3>3. /\ c \in HartSet /\ c.cur = t /\ c.noff = hart[h].noff /\ c.intena = hart[h].intena
          /\ c.intr = hart[h].intr
      BY <1>1, <1>4, <3>2
    <3>4. PICK g : GoOn(t, g) /\ g = Frame("while")
      BY <1>1, <1>3, <1>7, <3>1 DEF SleepStart
    <3>5. g \in FrameSet /\ g.sub = "-" /\ g.pc = "while"
      BY <3>4 DEF Frame, FrameSet, ProcPcs
    <3>6. /\ UNCHANGED <<spin, ticks, tpanic>> /\ hart' = hart
          /\ slept' = [slept EXCEPT ![t] = 0] /\ ps' = [ps EXCEPT ![t].ticks0 = ticks]
      BY <1>1, <1>3, <1>7, <3>1 DEF SleepStart
    <3>7. HartBecomes(h, c)
      BY <1>4, <3>2, <3>6 DEF HartBecomes
    <3>8. /\ ps' \in [TrapProc -> PsSet]
          /\ \A p \in TrapProc : p # t => ps'[p] = ps[p]
          /\ ps'[t].state = ps[t].state /\ ps'[t].intena = ps[t].intena /\ ps'[t].ticks0 = ticks
      <4>1. PICK z : z = [ps[t] EXCEPT !.ticks0 = ticks]
        OBVIOUS
      <4>2. z \in PsSet /\ z.state = ps[t].state /\ z.intena = ps[t].intena /\ z.ticks0 = ticks
        BY <1>4, <3>1, <4>1 DEF PsSet
      <4>3. ps' = [ps EXCEPT ![t] = z]
        BY <1>4, <3>1, <3>6, <4>1
      <4> QED
        BY <1>4, <3>1, <4>2, <4>3
    <3>9. PlainProcs(t, f)
      <4>1. /\ slept' \in [TrapProc -> Nat] /\ slept'[t] <= slept[t] /\ slept'[t] = 0
            /\ \A p \in TrapProc : p # t => slept'[p] = slept[p]
        BY <1>4, <3>1, <3>6
      <4> QED
        BY <3>1, <3>8, <4>1 DEF PlainProcs
    <3>10. PlainFrame(t, f, g) /\ PlainHart(h, t, f, g, c)
      <4>1. PlainCase(f, g, hart[h], c)
        BY <3>1, <3>3, <3>5 DEF PlainCase
      <4> QED
        BY <3>1, <3>3, <3>4, <3>5, <3>7, <4>1 DEF PlainFrame, PlainHart
    <3>11. f.pc \notin {"clockintr", "wakeup"} /\ UNCHANGED <<spin, ticks, tpanic>>
      BY <3>1, <3>6
    <3> QED
      BY <1>1, <1>2, <3>9, <3>10, <3>11, PlainKeeps
  <2> QED
    BY <1>7, <2>1, <2>2 DEF SleepStart
<1>8. CASE SleepWhile(h)
  <2>1. f.pc = "while" /\ f.sub = "-" /\ f.pc \notin {"yielded", "awake"}
    <3>1. Runs(h, "while")
      BY <1>8 DEF SleepWhile
    <3> QED
      BY <1>3, <3>1
  <2>2. t \in TrapProc /\ stack[t][1].pc = "while"
    BY <1>4, <2>1 DEF ProcPcs
  <2>3. CASE /\ Elapsed(t) >= ps[t].n /\ release(h, Ticklock, "slept")
             /\ UNCHANGED <<hart, ps, ticks, slept>>
    <3>1. slept[t] >= ps[t].n
      BY <2>2, <2>3, ElapsedDecides
    <3>2. ReleaseCase(t, f, Ticklock, "slept")
      BY <2>1, <3>1 DEF ReleaseCase
    <3> QED
      BY <1>1, <1>2, <2>1, <2>3, <3>2, ReleaseAlone
  <2>4. CASE release(h, Ticklock, "usertrapret") /\ UNCHANGED <<hart, ps, ticks, slept>>
    <3>1. ReleaseCase(t, f, Ticklock, "usertrapret")
      BY <2>1 DEF ReleaseCase
    <3> QED
      BY <1>1, <1>2, <2>1, <2>4, <3>1, ReleaseAlone
  <2>5. CASE Elapsed(t) < ps[t].n /\ acquire(h, t, "sleep")
    <3>1. slept[t] < ps[t].n
      BY <2>2, <2>5, ElapsedDecides
    <3>2. AcquireCase(h, t, f.pc, t, "sleep")
      BY <2>1, <2>2, <3>1 DEF AcquireCase
    <3> QED
      BY <1>1, <1>2, <1>5, <2>1, <2>2, <2>5, <3>2, AcquireKeeps
  <2> QED
    BY <1>1, <1>8, <2>3, <2>4, <2>5 DEF SleepWhile
<1>9. CASE TickSleep(h)
  <2>1. CASE Runs(h, "sleep") /\ release(h, Ticklock, "sched") /\ UNCHANGED <<hart, ps, ticks, slept>>
    <3>1. /\ f.pc = "sleep" /\ f.sub = "-" /\ ReleaseCase(t, f, Ticklock, "sched")
          /\ f.pc \notin {"yielded", "awake"}
      BY <1>3, <2>1 DEF ReleaseCase
    <3> QED
      BY <1>1, <1>2, <2>1, <3>1, ReleaseAlone
  <2>2. CASE Runs(h, "sched") /\ sched(h, hart[h].cur, "SLEEPING", "awake")
    <3>1. f.pc = "sched" /\ f.sub = "-" /\ sched(h, t, "SLEEPING", "awake")
      BY <1>1, <1>3, <2>2
    <3> QED
      BY <1>1, <1>2, <3>1, SchedKeeps
  <2>3. CASE Runs(h, "awake") /\ Resumed(h, hart[h].cur, "relock")
    <3>1. f.pc = "awake" /\ f.sub = "-" /\ Resumed(h, t, "relock")
      BY <1>1, <1>3, <2>3
    <3>2. t \in TrapProc
      BY <1>4, <3>1 DEF ProcPcs
    <3> QED
      BY <1>1, <1>2, <3>1, <3>2, ResumedKeeps
  <2>4. CASE Runs(h, "relock") /\ acquire(h, Ticklock, "while")
    <3>1. f.pc = "relock" /\ f.sub = "-" /\ AcquireCase(h, t, f.pc, Ticklock, "while")
      BY <1>3, <2>4 DEF AcquireCase
    <3> QED
      BY <1>1, <1>2, <1>5, <2>4, <3>1, AcquireKeeps
  <2> QED
    BY <1>9, <2>1, <2>2, <2>3, <2>4 DEF TickSleep
<1>10. CASE SleepReturns(h)
  <2>1. /\ f.pc = "slept" /\ f.sub = "-" /\ GoOn(t, Frame("usertrapret"))
        /\ UNCHANGED <<hart, spin, ps, ticks, slept, tpanic>>
    BY <1>1, <1>3, <1>10 DEF SleepReturns
  <2> QED
    BY <1>1, <1>2, <2>1, PlainAlone
<1> QED
  BY <1>6, <1>7, <1>8, <1>9, <1>10

-----------------------------------------------------------------------------
(* The theorems *)

\* The state in which main leaves the harts and userinit and fork the processes.
LEMMA InitialState ==
  ASSUME TrapInit
  PROVE  TrapInv
<1>1. /\ \A t \in TrapHart : stack[t] = <<Frame("loop")>>
      /\ \A t \in TrapProc : stack[t] = <<Frame("forkret")>>
      /\ \A h \in TrapHart : hart[h] = [intr |-> FALSE, noff |-> 0, intena |-> FALSE, cur |-> h]
      /\ \A p \in TrapProc : ps[p].state = "RUNNABLE" /\ ps[p].n = 0 /\ slept[p] = 0
      /\ \A l \in LockId : spin[l].locked = FALSE /\ spin[l].cpu = NoHart
      /\ tpanic = FALSE
  BY TrapAssumption DEF TrapInit, Thread
<1>2. /\ Frame("loop") \in FrameSet /\ Frame("forkret") \in FrameSet
      /\ Frame("loop").pc = "loop" /\ Frame("forkret").pc = "forkret"
      /\ Frame("loop").sub = "-" /\ Frame("forkret").sub = "-"
  BY DEF Frame, FrameSet, ProcPcs, SchedulerPcs
<1>3. \A t \in Thread :
        /\ stack[t] \in Seq(FrameSet) /\ Len(stack[t]) = 1 /\ stack[t][1] = Last(stack[t])
        /\ Last(stack[t]).sub = "-"
        /\ t \in TrapHart => Last(stack[t]).pc = "loop" /\ t \notin TrapProc
        /\ t \in TrapProc => Last(stack[t]).pc = "forkret"
  <2>1. ASSUME NEW t \in Thread, NEW f \in FrameSet, stack[t] = <<f>>
        PROVE  stack[t] \in Seq(FrameSet) /\ Len(stack[t]) = 1 /\ stack[t][1] = f /\ Last(stack[t]) = f
    BY <2>1 DEF Last
  <2>2. ASSUME NEW t \in TrapHart
        PROVE  t \in Thread /\ t \notin TrapProc /\ stack[t] = <<Frame("loop")>>
    BY <1>1, TrapAssumption DEF Thread
  <2>3. ASSUME NEW t \in TrapProc
        PROVE  t \in Thread /\ t \notin TrapHart /\ stack[t] = <<Frame("forkret")>>
    BY <1>1, TrapAssumption DEF Thread
  <2> QED
    BY <1>2, <2>1, <2>2, <2>3 DEF Thread
<1>4. \A h \in TrapHart : hart[h].cur = h /\ h \in Thread /\ hart[h].noff = 0 /\ ~hart[h].intr
  <2>1. ASSUME NEW h \in TrapHart
        PROVE  hart[h].cur = h /\ hart[h].noff = 0 /\ hart[h].intr = FALSE
    <3>1. hart[h] = [intr |-> FALSE, noff |-> 0, intena |-> FALSE, cur |-> h]
      BY <1>1
    <3> QED
      BY <3>1
  <2> QED
    BY <2>1 DEF Thread
<1>5. TrapTypes
  <2>1. hart \in [TrapHart -> HartSet]
    BY DEF TrapInit, HartSet, Thread
  <2>2. stack \in [Thread -> Seq(FrameSet)]
    BY <1>3 DEF TrapInit
  <2>3. spin \in [LockId -> SpinSet]
    BY DEF TrapInit, SpinSet
  <2>4. 0 \in 0..(TickRange - 1)
    BY TrapAssumption
  <2>5. ps \in [TrapProc -> PsSet]
    BY <2>4 DEF TrapInit, PsSet
  <2>6. ticks \in 0..(TickRange - 1) /\ slept \in [TrapProc -> Nat]
    BY <2>4 DEF TrapInit
  <2> QED
    BY <1>1, <2>1, <2>2, <2>3, <2>5, <2>6 DEF TrapTypes
<1>6. Stacks
  <2>1. ASSUME NEW t \in Thread
        PROVE  StackOK(t, stack[t]) /\ FrameOK(t, Last(stack[t]))
    <3>1. /\ Len(stack[t]) = 1 /\ stack[t][1] = Last(stack[t]) /\ Last(stack[t]).sub = "-"
          /\ Last(stack[t]).pc \in {"loop", "forkret"}
          /\ Last(stack[t]).pc \in (IF t \in TrapProc THEN ProcPcs ELSE SchedulerPcs)
      BY <1>3 DEF Thread, ProcPcs, SchedulerPcs
    <3>2. FrameOK(t, Last(stack[t]))
      BY <3>1 DEF FrameOK, PickPcs
    <3>3. StackOK(t, stack[t])
      BY <3>1 DEF StackOK
    <3> QED
      BY <3>2, <3>3
  <2> QED
    BY <2>1 DEF Stacks
<1>7. Placed
  BY <1>1, <1>3, <1>4, TrapAssumption DEF Placed, Thread
<1>8. \A h \in TrapHart : /\ Depth(Last(stack[h])) = 0 /\ Taken(h, Last(stack[h])) = {}
                          /\ Marked(h, Last(stack[h])) = {}
  <2>1. ASSUME NEW h \in TrapHart
        PROVE  Last(stack[h]).pc \in Interruptible /\ Last(stack[h]).sub = "-"
    BY <1>3 DEF Interruptible, Thread
  <2> QED
    BY <2>1, NoLocksHeld
<1>9. Locks
  <2>1. \A h \in TrapHart : TakenBy(h) = {} /\ MarkedBy(h) = {}
    BY <1>4, <1>8 DEF TakenBy, MarkedBy
  <2>2. \A l \in LockId : ~spin[l].locked /\ spin[l].cpu = NoHart
    BY <1>1
  <2> QED
    BY <2>1, <2>2, TrapAssumption DEF Locks
<1>10. Nesting
  <2>1. ASSUME NEW h \in TrapHart
        PROVE  IntrOK(h, hart[h], stack[h])
    <3>1. SubOK(h, Last(stack[h]))
      BY <1>3, <1>4 DEF SubOK
    <3> QED
      BY <1>3, <1>4, <1>8, <3>1 DEF IntrOK
  <2>2. \A p \in TrapProc : Last(stack[p]).pc = "forkret"
    BY <1>3 DEF Thread
  <2> QED
    BY <1>4, <2>1, <2>2 DEF Nesting
<1>11. Counting
  <2>1. \A h \in TrapHart : Last(stack[hart[h].cur]).pc = "loop"
    BY <1>3, <1>4
  <2>2. \A p \in TrapProc : slept[p] <= TickRange - 1
    BY <1>1, TrapAssumption
  <2> QED
    BY <2>1, <2>2, TrapAssumption DEF Counting
<1>12. Sleeping
  <2>1. ASSUME NEW p \in TrapProc
        PROVE  stack[p][1].pc = "forkret" /\ ps[p].state = "RUNNABLE"
    BY <1>1, <1>3 DEF Thread
  <2> QED
    BY <2>1 DEF Sleeping, SleepOK
<1> QED
  BY <1>5, <1>6, <1>7, <1>9, <1>10, <1>11, <1>12 DEF TrapInv

\* Every step of a hart, and kill, keeps the invariant.
LEMMA StepKeeps ==
  ASSUME TrapInv, [TrapNext]_trapVars
  PROVE  TrapInv'
<1>1. CASE UNCHANGED trapVars
  <2>1. UNCHANGED <<hart, stack, spin, ps, ticks, slept, tpanic>>
    BY <1>1 DEF trapVars
  <2>2. TrapTypes' /\ Stacks' /\ Placed'
    BY <2>1 DEF TrapInv, TrapTypes, Stacks, Placed
  <2>3. Locks'
    BY <2>1 DEF TrapInv, Locks, TakenBy, MarkedBy
  <2>4. Nesting' /\ Counting'
    BY <2>1 DEF TrapInv, Nesting, Counting, TickBound
  <2>5. Sleeping'
    BY <2>1 DEF TrapInv, Sleeping, SleepOK, Waking
  <2> QED
    BY <2>2, <2>3, <2>4, <2>5 DEF TrapInv
<1>2. ASSUME NEW h \in TrapHart, AcquireSwap(h) \/ AcquireCpu(h) \/ ReleaseUnlock(h)
      PROVE  TrapInv'
  BY <1>2, AcquireSwapKeeps, AcquireCpuKeeps, ReleaseUnlockKeeps
<1>3. ASSUME NEW h \in TrapHart,
             SchedulerLoop(h) \/ SchedulerScan(h) \/ SchedulerPick(h) \/ SchedulerBack(h)
      PROVE  TrapInv'
  BY <1>3, SchedulerKeeps
<1>4. ASSUME NEW h \in TrapHart, Interrupt(h) \/ clockintr(h) \/ TrapReturn(h)
      PROVE  TrapInv'
  BY <1>4, InterruptKeeps, ClockKeeps, ReturnKeeps
<1>5. ASSUME NEW h \in TrapHart,
             forkret(h) \/ devintr(h) \/ WakeSleepers(h) \/ TrapYield(h) \/ YieldSwitch(h)
      PROVE  TrapInv'
  BY <1>5, HandlerKeeps
<1>6. ASSUME NEW h \in TrapHart, usertrap(h) \/ BackToUser(h)
      PROVE  TrapInv'
  BY <1>6, CallKeeps
<1>7. ASSUME NEW h \in TrapHart,
             sys_uptime(h) \/ SleepStart(h) \/ SleepWhile(h) \/ TickSleep(h) \/ SleepReturns(h)
      PROVE  TrapInv'
  BY <1>7, SleepKeeps
<1>8. ASSUME NEW p \in TrapProc, TrapKill(p)
      PROVE  TrapInv'
  BY <1>8, KillKeeps
<1> QED
  BY <1>1, <1>2, <1>3, <1>4, <1>5, <1>6, <1>7, <1>8 DEF TrapNext

\* What acquire, release, sched and the handlers keep on every hart.
THEOREM TrapInvariant == TrapSpec => []TrapInv
<1>1. TrapInit => TrapInv
  BY InitialState
<1>2. TrapInv /\ [TrapNext]_trapVars => TrapInv'
  BY StepKeeps
<1> QED
  BY <1>1, <1>2, PTL DEF TrapSpec

\* No panic of acquire, release, pop_off or sched is reached, handlers run with
\* interrupts off and are not interrupted, and system calls that hold no lock run
\* with interrupts on: for any number of harts and processes.
THEOREM InterruptsDisciplinedHolds == TrapSpec => []InterruptsDisciplined
<1>1. ASSUME TrapInv
      PROVE  InterruptsDisciplined
  <2>1. ~tpanic
    BY <1>1 DEF TrapInv, TrapTypes
  <2>2. \A t \in Thread : Len(stack[t]) <= 2
    <3>1. ASSUME NEW t \in Thread
          PROVE  Len(stack[t]) <= 2
      <4>1. PICK k : k = Len(stack[t])
        OBVIOUS
      <4>2. k = 1 \/ k = 2
        BY <1>1, <4>1, Classes DEF TrapInv
      <4>3. k <= 2
        BY <4>2
      <4> QED
        BY <4>1, <4>3
    <3> QED
      BY <3>1
  <2>3. ASSUME NEW h \in TrapHart
        PROVE  /\ Len(stack[hart[h].cur]) = 2 => ~hart[h].intr
               /\ hart[h].noff > 0 => ~hart[h].intr
               /\ \A pc \in {"sys_sleep", "sys_uptime", "relock", "slept"} : Runs(h, pc) => hart[h].intr
    <3>1. PICK t : t = hart[h].cur
      OBVIOUS
    <3>2. PICK f : f = Last(stack[t])
      OBVIOUS
    <3>3. IntrOK(t, hart[h], stack[t])
      BY <1>1, <3>1 DEF TrapInv, Nesting
    <3>4. ASSUME NEW pc \in {"sys_sleep", "sys_uptime", "relock", "slept"}, Runs(h, pc)
          PROVE  hart[h].intr
      <4>1. f.pc = pc /\ f.sub = "-"
        BY <3>1, <3>2, <3>4, Running
      <4>2. Depth(f) = 0
        BY <4>1, NoLocksHeld DEF Interruptible
      <4> QED
        BY <3>2, <3>3, <4>1, <4>2 DEF IntrOK
    <3> QED
      BY <3>1, <3>3, <3>4 DEF IntrOK
  <2> QED
    BY <2>1, <2>2, <2>3 DEF InterruptsDisciplined
<1> QED
  BY <1>1, TrapInvariant, PTL

\* sys_sleep(n) returns 0 only after n ticks, whatever ticks is when it starts,
\* and clockintr wakes whoever sleeps for a tick that has passed.
THEOREM SleepsItsTicksHolds == TrapSpec => []SleepsItsTicks
<1>1. ASSUME TrapInv
      PROVE  SleepsItsTicks
  <2>1. ASSUME NEW p \in TrapProc
        PROVE  /\ TopFrame(p).pc = "slept" => slept[p] >= ps[p].n
               /\ ps[p].state = "SLEEPING" =>
                    \/ slept[p] < ps[p].n
                    \/ \E t \in Thread : TopFrame(t).pc = "wakeup" /\ p \in TopFrame(t).lk
    <3>1. p \in Thread /\ SleepOK(p)
      BY <1>1 DEF TrapInv, Sleeping, Thread
    <3>2. TopFrame(p).pc = "slept" => stack[p][1].pc = "slept"
      <4>1. TopFrame(p) = Last(stack[p])
        BY DEF TopFrame, Last
      <4>2. Last(stack[p]).pc = "slept" => Last(stack[p]).pc \in ProcPcs
        BY DEF ProcPcs
      <4> QED
        BY <1>1, <3>1, <4>1, <4>2, Classes DEF TrapInv
    <3> QED
      BY <3>1, <3>2 DEF SleepOK, Waking, TopFrame, Last
  <2> QED
    BY <2>1 DEF SleepsItsTicks
<1> QED
  BY <1>1, TrapInvariant, PTL

=============================================================================
