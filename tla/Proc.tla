-------------------------------- MODULE Proc --------------------------------
(***************************************************************************)
(* Processes of proc.c: fork, exit, wait, kill, sleep, wakeup and the      *)
(* scheduler of every hart.  Sections under one p->lock are one step where *)
(* nothing else happens inside; a p->lock that is kept across swtch, or by *)
(* fork, is modelled.  The only sleepers are processes in wait, each on    *)
(* its own address as the channel.                                         *)
(***************************************************************************)
EXTENDS Naturals, FiniteSets

CONSTANTS Slots,      \* entries of proc[NPROC], numbered from 1; userinit takes slot 1
          Hart,
          MaxPid,     \* bound on the pids that allocpid hands out
          KillPids,   \* pids that processes pass to kill
          NONE

ASSUME ProcAssumption ==
  /\ Slots \in Nat \ {0}
  /\ MaxPid \in Nat /\ KillPids \subseteq Nat
  /\ NONE \notin Nat

Proc == 1..Slots
initproc == 1

VARIABLES
  state, pid, parent, killed,   \* fields of struct proc
  plock,        \* p->lock is held
  waitlock,     \* holder of wait_lock
  nextpid,
  cur,          \* c->proc: the process whose kernel stack the hart uses
  switched,     \* the process is inside swtch (or has yet to run)
  pc,           \* where the process is in the kernel
  np            \* local of fork

vars == <<state, pid, parent, killed, plock, waitlock, nextpid, cur, switched, pc, np>>

\* After procinit, when the processes of the set started have been set up.
Started(started) ==
  /\ state = [p \in Proc |-> IF p \in started THEN "RUNNABLE" ELSE "UNUSED"]
  /\ pid = [p \in Proc |-> IF p \in started THEN 1 ELSE 0]
  /\ parent = [p \in Proc |-> NONE]
  /\ killed = [p \in Proc |-> FALSE]
  /\ plock = [p \in Proc |-> FALSE]
  /\ waitlock = NONE
  /\ nextpid = 2
  /\ cur = [h \in Hart |-> NONE]
  /\ switched = [p \in Proc |-> TRUE]
  /\ pc = [p \in Proc |-> "user"]
  /\ np = [p \in Proc |-> NONE]

\* userinit has set up the first process.
Init == Started({initproc})

\* p executes: it is on a hart and not inside swtch.
At(p, where) ==
  /\ \E h \in Hart : cur[h] = p
  /\ ~switched[p]
  /\ pc[p] = where

Goto(p, where) == pc' = [pc EXCEPT ![p] = where]

Children(p) == {q \in Proc : parent[q] = p}

-----------------------------------------------------------------------------
(* The scheduler *)

\* scheduler picks a RUNNABLE process and switches to it, holding its lock.
scheduler(h, p) ==
  /\ cur[h] = NONE
  /\ ~plock[p]
  /\ state[p] = "RUNNABLE"
  /\ state' = [state EXCEPT ![p] = "RUNNING"]
  /\ plock' = [plock EXCEPT ![p] = TRUE]
  /\ cur' = [cur EXCEPT ![h] = p]
  /\ UNCHANGED <<pid, parent, killed, waitlock, nextpid, switched, pc, np>>

\* The process runs again, in forkret, yield or sleep, and releases its lock.
Resume(p) ==
  /\ \E h \in Hart : cur[h] = p
  /\ state[p] = "RUNNING"
  /\ switched[p]
  /\ switched' = [switched EXCEPT ![p] = FALSE]
  /\ plock' = [plock EXCEPT ![p] = FALSE]
  /\ pc' = [pc EXCEPT ![p] = IF @ = "asleep" THEN "wait" ELSE @]
  /\ UNCHANGED <<state, pid, parent, killed, waitlock, nextpid, cur, np>>

\* The process has called sched: the hart is back in scheduler and releases
\* the lock of the process.
SchedReturns(h) ==
  /\ cur[h] # NONE
  /\ state[cur[h]] # "RUNNING"
  /\ plock' = [plock EXCEPT ![cur[h]] = FALSE]
  /\ cur' = [cur EXCEPT ![h] = NONE]
  /\ UNCHANGED <<state, pid, parent, killed, waitlock, nextpid, switched, pc, np>>

\* A timer interrupt in user space, or in the kernel where no spinlock is held.
yield(p) ==
  /\ \E where \in {"user", "ret", "fork_parent", "fork_run", "exit", "wait"} : At(p, where)
  /\ pc[p] = "user" => ~killed[p]
  /\ ~plock[p]
  /\ plock' = [plock EXCEPT ![p] = TRUE]
  /\ state' = [state EXCEPT ![p] = "RUNNABLE"]
  /\ switched' = [switched EXCEPT ![p] = TRUE]
  /\ UNCHANGED <<pid, parent, killed, waitlock, nextpid, cur, pc, np>>

-----------------------------------------------------------------------------
(* fork *)

\* allocproc finds an UNUSED slot and keeps its lock.
allocproc(p, q) ==
  /\ At(p, "user") /\ ~killed[p]
  /\ state[q] = "UNUSED" /\ ~plock[q]
  /\ nextpid <= MaxPid
  /\ plock' = [plock EXCEPT ![q] = TRUE]
  /\ pid' = [pid EXCEPT ![q] = nextpid]
  /\ nextpid' = nextpid + 1
  /\ state' = [state EXCEPT ![q] = "USED"]
  /\ switched' = [switched EXCEPT ![q] = TRUE]
  /\ np' = [np EXCEPT ![p] = q]
  /\ pc' = [pc EXCEPT ![p] = "fork_copy", ![q] = "user"]
  /\ UNCHANGED <<parent, killed, waitlock, cur>>

\* freeproc(q), as part of another step.
freeproc(q) ==
  /\ pid' = [pid EXCEPT ![q] = 0]
  /\ parent' = [parent EXCEPT ![q] = NONE]
  /\ killed' = [killed EXCEPT ![q] = FALSE]
  /\ state' = [state EXCEPT ![q] = "UNUSED"]

\* Memory runs out in allocproc or uvmcopy: the slot is free again.
ForkFails(p) ==
  /\ At(p, "fork_copy")
  /\ freeproc(np[p])
  /\ plock' = [plock EXCEPT ![np[p]] = FALSE]
  /\ np' = [np EXCEPT ![p] = NONE]
  /\ Goto(p, "ret")
  /\ UNCHANGED <<waitlock, nextpid, cur, switched>>

\* The copy is made, the child's lock released.
ForkCopies(p) ==
  /\ At(p, "fork_copy")
  /\ plock' = [plock EXCEPT ![np[p]] = FALSE]
  /\ Goto(p, "fork_parent")
  /\ UNCHANGED <<state, pid, parent, killed, waitlock, nextpid, cur, switched, np>>

\* Under wait_lock: np->parent = p.
ForkParent(p) ==
  /\ At(p, "fork_parent")
  /\ waitlock = NONE
  /\ parent' = [parent EXCEPT ![np[p]] = p]
  /\ Goto(p, "fork_run")
  /\ UNCHANGED <<state, pid, killed, plock, waitlock, nextpid, cur, switched, np>>

\* Under np->lock: the child may run.
ForkRun(p) ==
  /\ At(p, "fork_run")
  /\ ~plock[np[p]]
  /\ state' = [state EXCEPT ![np[p]] = "RUNNABLE"]
  /\ np' = [np EXCEPT ![p] = NONE]
  /\ Goto(p, "ret")
  /\ UNCHANGED <<pid, parent, killed, plock, waitlock, nextpid, cur, switched>>

-----------------------------------------------------------------------------
(* Traps: the tests of killed at the entry of a system call and at its end *)

\* usertrap: the system call is over and the process goes on.
usertrapret(p) ==
  /\ At(p, "ret") /\ ~killed[p]
  /\ Goto(p, "user")
  /\ UNCHANGED <<state, pid, parent, killed, plock, waitlock, nextpid, cur, switched, np>>

\* usertrap: a killed process exits.
TrapExits(p) ==
  /\ At(p, "user") \/ At(p, "ret")
  /\ killed[p]
  /\ Goto(p, "exit")
  /\ UNCHANGED <<state, pid, parent, killed, plock, waitlock, nextpid, cur, switched, np>>

\* usertrap on an exception: setkilled.
setkilled(p) ==
  /\ At(p, "user") /\ p # initproc
  /\ ~plock[p]
  /\ killed' = [killed EXCEPT ![p] = TRUE]
  /\ Goto(p, "ret")
  /\ UNCHANGED <<state, pid, parent, plock, waitlock, nextpid, cur, switched, np>>

-----------------------------------------------------------------------------
(* exit.  The program of the initial process never calls it. *)

sys_exit(p) ==
  /\ At(p, "user") /\ ~killed[p] /\ p # initproc
  /\ Goto(p, "exit")
  /\ UNCHANGED <<state, pid, parent, killed, plock, waitlock, nextpid, cur, switched, np>>

\* wakeup(q) waits for the lock of a sleeping q and makes it RUNNABLE.
wakeup(q) ==
  /\ q # NONE /\ state[q] = "SLEEPING" => ~plock[q]
  /\ state' = IF q # NONE /\ state[q] = "SLEEPING"
                THEN [state EXCEPT ![q] = "RUNNABLE"] ELSE state

\* acquire(&wait_lock); a killed init gets no further (panic "init exiting").
ExitLocks(p) ==
  /\ At(p, "exit") /\ p # initproc
  /\ waitlock = NONE
  /\ waitlock' = p
  /\ Goto(p, "exit_reparent")
  /\ UNCHANGED <<state, pid, parent, killed, plock, nextpid, cur, switched, np>>

\* Mutant of reparent: init is not woken.
ReparentQuietly(p) ==
  /\ At(p, "exit_reparent")
  /\ parent' = [q \in Proc |-> IF parent[q] = p THEN initproc ELSE parent[q]]
  /\ Goto(p, "exit_wakeup")
  /\ UNCHANGED <<state, pid, killed, plock, waitlock, nextpid, cur, switched, np>>

\* Mutant of reparent: children that have exited already are passed over.
ReparentLiving(p) ==
  /\ At(p, "exit_reparent")
  /\ parent' = [q \in Proc |-> IF parent[q] = p /\ state[q] # "ZOMBIE"
                                THEN initproc ELSE parent[q]]
  /\ IF Children(p) # {} THEN wakeup(initproc) ELSE UNCHANGED state
  /\ Goto(p, "exit_wakeup")
  /\ UNCHANGED <<pid, killed, plock, waitlock, nextpid, cur, switched, np>>

\* Every child is handed to init, and init woken if there is one.
reparent(p) ==
  /\ At(p, "exit_reparent")
  /\ parent' = [q \in Proc |-> IF parent[q] = p THEN initproc ELSE parent[q]]
  /\ IF Children(p) # {} THEN wakeup(initproc) ELSE UNCHANGED state
  /\ Goto(p, "exit_wakeup")
  /\ UNCHANGED <<pid, killed, plock, waitlock, nextpid, cur, switched, np>>

\* The parent might be sleeping in wait.
ExitWakes(p) ==
  /\ At(p, "exit_wakeup")
  /\ wakeup(parent[p])
  /\ Goto(p, "exit_zombie")
  /\ UNCHANGED <<pid, parent, killed, plock, waitlock, nextpid, cur, switched, np>>

\* ZOMBIE under p->lock, which is kept into sched; wait_lock is released.
ExitZombie(p) ==
  /\ At(p, "exit_zombie")
  /\ ~plock[p]
  /\ plock' = [plock EXCEPT ![p] = TRUE]
  /\ state' = [state EXCEPT ![p] = "ZOMBIE"]
  /\ switched' = [switched EXCEPT ![p] = TRUE]
  /\ waitlock' = NONE
  /\ UNCHANGED <<pid, parent, killed, nextpid, cur, pc, np>>

-----------------------------------------------------------------------------
(* wait *)

sys_wait(p) ==
  /\ At(p, "user") /\ ~killed[p]
  /\ Goto(p, "wait")
  /\ UNCHANGED <<state, pid, parent, killed, plock, waitlock, nextpid, cur, switched, np>>

\* acquire(&wait_lock), on entry and at the end of sleep.
WaitLocks(p) ==
  /\ At(p, "wait")
  /\ waitlock = NONE
  /\ waitlock' = p
  /\ Goto(p, "wait_scan")
  /\ UNCHANGED <<state, pid, parent, killed, plock, nextpid, cur, switched, np>>

\* Mutant of WaitReaps: the child is freed without taking its lock.
ReapsUnlocked(p, z) ==
  /\ At(p, "wait_scan")
  /\ parent[z] = p /\ state[z] = "ZOMBIE"
  /\ freeproc(z)
  /\ waitlock' = NONE
  /\ Goto(p, "ret")
  /\ UNCHANGED <<plock, nextpid, cur, switched, np>>

\* Mutant of WaitReaps: wait returns the pid with wait_lock held.
ReapsKeepingLock(p, z) ==
  /\ At(p, "wait_scan")
  /\ parent[z] = p /\ ~plock[z] /\ state[z] = "ZOMBIE"
  /\ freeproc(z)
  /\ Goto(p, "ret")
  /\ UNCHANGED <<waitlock, plock, nextpid, cur, switched, np>>

\* The scan meets a ZOMBIE child and takes its lock; copyout of the status may
\* fail, but not for init, which passes a null address.
WaitReaps(p, z) ==
  /\ At(p, "wait_scan")
  /\ parent[z] = p /\ ~plock[z] /\ state[z] = "ZOMBIE"
  /\ \/ freeproc(z)
     \/ p # initproc /\ UNCHANGED <<pid, parent, killed, state>>
  /\ waitlock' = NONE
  /\ Goto(p, "ret")
  /\ UNCHANGED <<plock, nextpid, cur, switched, np>>

\* The scan finds no ZOMBIE: there is no child, or p is killed, or p will sleep.
WaitFindsNone(p) ==
  /\ At(p, "wait_scan")
  /\ \A q \in Children(p) : state[q] # "ZOMBIE"
  /\ IF Children(p) = {} \/ killed[p]
       THEN waitlock' = NONE /\ Goto(p, "ret")
       ELSE UNCHANGED waitlock /\ Goto(p, "wait_sleep")
  /\ UNCHANGED <<state, pid, parent, killed, plock, nextpid, cur, switched, np>>

\* sleep(p, &wait_lock): p->lock is taken before wait_lock is released, and
\* kept into sched.
sleep(p) ==
  /\ At(p, "wait_sleep")
  /\ ~plock[p]
  /\ plock' = [plock EXCEPT ![p] = TRUE]
  /\ waitlock' = NONE
  /\ state' = [state EXCEPT ![p] = "SLEEPING"]
  /\ switched' = [switched EXCEPT ![p] = TRUE]
  /\ Goto(p, "asleep")
  /\ UNCHANGED <<pid, parent, killed, nextpid, cur, np>>

-----------------------------------------------------------------------------
(* kill *)

\* kill(target) acts on the first slot with that pid, or fails.
kill(p, target) ==
  /\ At(p, "user") /\ ~killed[p]
  /\ \/ \E q \in Proc :
          /\ pid[q] = target
          /\ \A r \in 1..(q - 1) : pid[r] # target
          /\ ~plock[q]
          /\ killed' = [killed EXCEPT ![q] = TRUE]
          /\ state' = IF state[q] = "SLEEPING"
                        THEN [state EXCEPT ![q] = "RUNNABLE"] ELSE state
     \/ /\ \A q \in Proc : pid[q] # target
        /\ UNCHANGED <<killed, state>>
  /\ Goto(p, "ret")
  /\ UNCHANGED <<pid, parent, plock, waitlock, nextpid, cur, switched, np>>

-----------------------------------------------------------------------------
Step(p) ==
  \/ usertrapret(p) \/ TrapExits(p)
  \/ ForkFails(p) \/ ForkCopies(p) \/ ForkParent(p) \/ ForkRun(p)
  \/ ExitLocks(p) \/ reparent(p) \/ ExitWakes(p) \/ ExitZombie(p)
  \/ WaitLocks(p) \/ (\E z \in Proc : WaitReaps(p, z)) \/ WaitFindsNone(p) \/ sleep(p)

\* What a user program may call, or the hardware do to it.
Call(p) ==
  \/ \E q \in Proc : allocproc(p, q)
  \/ sys_exit(p) \/ sys_wait(p) \/ setkilled(p) \/ yield(p)
  \/ \E target \in KillPids : kill(p, target)

Next ==
  \/ \E p \in Proc : Step(p) \/ Call(p) \/ Resume(p)
  \/ \E h \in Hart : SchedReturns(h) \/ \E p \in Proc : scheduler(h, p)

Spec == Init /\ [][Next]_vars

\* Every hart runs its scheduler over all slots; timer interrupts keep coming;
\* a spinlock that is free again and again is acquired at last; init calls
\* wait for ever.
Fairness ==
  /\ \A h \in Hart : WF_vars(SchedReturns(h))
  /\ \A p \in Proc :
       /\ SF_vars(\E h \in Hart : scheduler(h, p))
       /\ WF_vars(Resume(p))
       /\ SF_vars(yield(p))
       /\ SF_vars(Step(p))
  /\ SF_vars(sys_wait(initproc))

-----------------------------------------------------------------------------
\* No two harts are on one kernel stack, and none is on the stack of a slot
\* that wait has freed or that fork is filling: exit and sleep keep p->lock
\* until the scheduler has left the stack.
StackHasOneHart ==
  \A h \in Hart : cur[h] # NONE =>
    /\ state[cur[h]] \notin {"UNUSED", "USED"}
    /\ \A g \in Hart \ {h} : cur[g] # cur[h]

\* A process asleep in wait has no ZOMBIE child: the wakeup of exit is never
\* lost between the scan of wait and its sleep, nor that of reparent.
SleeperHasNoZombie ==
  \A p \in Proc : state[p] = "SLEEPING" =>
    \A q \in Children(p) : state[q] # "ZOMBIE"

\* Every process but init has a parent that can still wait for it: exit hands
\* its children to init before it becomes a ZOMBIE, and fork sets the parent
\* before the child can run.
ParentCanWait ==
  \A p \in Proc \ {initproc} :
    state[p] \in {"SLEEPING", "RUNNABLE", "RUNNING", "ZOMBIE"} =>
      /\ parent[p] # NONE
      /\ state[parent[p]] \in {"SLEEPING", "RUNNABLE", "RUNNING"}

\* A slot that fork takes has nothing left of the process before it: kill
\* marks "the process with the given pid" and no other.
UnusedIsClean ==
  \A p \in Proc : state[p] = "UNUSED" => ~killed[p] /\ parent[p] = NONE

\* An orphan that has exited is reaped: init is woken, finds it and frees it.
OrphansReaped ==
  \A p \in Proc \ {initproc} :
    (state[p] = "ZOMBIE" /\ parent[p] = initproc) ~> state[p] = "UNUSED"

\* A process that is killed in user space exits, however often it is preempted
\* and whoever else wants wait_lock.
VictimExits ==
  \A p \in Proc \ {initproc} :
    (killed[p] /\ pc[p] = "user") ~> state[p] \in {"ZOMBIE", "UNUSED"}

=============================================================================
