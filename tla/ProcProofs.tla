---------------------------- MODULE ProcProofs -----------------------------
(***************************************************************************)
(* Processes, for any number of slots and harts and any pids passed to     *)
(* kill: the safety properties of proc.c, from one inductive invariant.    *)
(***************************************************************************)
EXTENDS Proc, TLAPS

\* Leaves are tried with Zenon first, which is quick to give up.
USE ZenonT(3), SMTT(30)

-----------------------------------------------------------------------------
(* The inductive invariant *)

States == {"UNUSED", "USED", "SLEEPING", "RUNNABLE", "RUNNING", "ZOMBIE"}
Living == {"SLEEPING", "RUNNABLE", "RUNNING"}

Forking == {"fork_copy", "fork_parent", "fork_run"}
Waiting == {"wait_scan", "wait_sleep"}
Exiting == {"exit_reparent", "exit_wakeup", "exit_zombie"}
Preempted == {"user", "ret", "fork_parent", "fork_run", "exit", "wait"}
Pcs == Preempted \cup Forking \cup Waiting \cup Exiting \cup {"asleep"}

ProcTypes ==
  /\ state \in [Proc -> States]
  /\ pid \in [Proc -> Nat] /\ nextpid \in Nat
  /\ parent \in [Proc -> Proc \cup {NONE}]
  /\ killed \in [Proc -> BOOLEAN] /\ plock \in [Proc -> BOOLEAN]
  /\ switched \in [Proc -> BOOLEAN]
  /\ waitlock \in Proc \cup {NONE}
  /\ cur \in [Hart -> Proc \cup {NONE}]
  /\ pc \in [Proc -> Pcs]
  /\ np \in [Proc -> Proc \cup {NONE}]

OnHart(p) == \E h \in Hart : cur[h] = p

\* Harts and kernel stacks: a hart alone uses the stack of its process, which
\* runs or is between sched and scheduler with its lock held; a process that
\* runs is on a hart, and its lock is held exactly until Resume.
Stacks ==
  /\ \A g, h \in Hart : cur[h] # NONE /\ cur[g] = cur[h] => g = h
  /\ \A p \in Proc : OnHart(p) =>
       state[p] = "RUNNING" \/ (state[p] \in {"RUNNABLE", "SLEEPING", "ZOMBIE"} /\ plock[p])
  /\ \A p \in Proc : state[p] = "RUNNING" => OnHart(p) /\ (plock[p] <=> switched[p])
  /\ \A p \in Proc : state[p] # "RUNNING" => switched[p]

\* What a process in a state may be in the middle of.
Places ==
  \A p \in Proc :
    /\ state[p] = "UNUSED" => parent[p] = NONE
    /\ state[p] = "USED" => pc[p] = "user"
    /\ state[p] = "RUNNABLE" => pc[p] \in Preempted \cup {"asleep"}
    /\ state[p] = "RUNNING" => (pc[p] = "asleep" => switched[p])
    /\ state[p] = "RUNNING" /\ switched[p] => pc[p] \in Preempted \cup {"asleep"}
    /\ state[p] = "SLEEPING" => pc[p] = "asleep"
    /\ state[p] = "ZOMBIE" => pc[p] = "exit_zombie"
    /\ state[p] = "UNUSED" => pc[p] \in {"user", "exit_zombie"}

\* fork: the slot that allocproc found stays USED and belongs to one forking
\* process, which holds its lock while it copies and is its parent from
\* ForkParent on.
Forks ==
  /\ \A p \in Proc : pc[p] \in Forking =>
       /\ np[p] \in Proc /\ state[np[p]] = "USED"
       /\ pc[p] = "fork_copy" => plock[np[p]]
       /\ pc[p] = "fork_run" => parent[np[p]] = p
  /\ \A p, q \in Proc : pc[p] \in Forking /\ pc[q] \in Forking /\ np[p] = np[q] => p = q
  /\ \A p \in Proc : state[p] = "USED" /\ plock[p] =>
       \E r \in Proc : pc[r] = "fork_copy" /\ np[r] = p

\* wait_lock is held from the reparenting of exit until ZOMBIE, and from the
\* scan of wait until it sleeps or returns.
WaitLocked ==
  \A p \in Proc :
    waitlock = p <=> \/ pc[p] \in Waiting \cup {"exit_reparent", "exit_wakeup"}
                     \/ pc[p] = "exit_zombie" /\ state[p] = "RUNNING"

\* A parent lives and has not handed its children over yet, init always lives,
\* and whoever lives or waits to be reaped has a parent.
Family ==
  /\ \A p \in Proc : parent[p] # NONE =>
       state[parent[p]] \in Living /\ pc[parent[p]] \notin {"exit_wakeup", "exit_zombie"}
  /\ state[initproc] \in Living /\ pc[initproc] \notin Exiting
  /\ \A p \in Proc \ {initproc} : state[p] \in Living \cup {"ZOMBIE"} => parent[p] # NONE

\* A process that sleeps in wait, or is about to, has no ZOMBIE child, and no
\* child that is about to become one has a sleeping parent.
NoMissedExit ==
  /\ \A p \in Proc : state[p] = "SLEEPING" \/ pc[p] = "wait_sleep" =>
       \A q \in Children(p) : state[q] # "ZOMBIE"
  /\ \A p \in Proc : pc[p] = "exit_zombie" /\ state[p] = "RUNNING" /\ parent[p] # NONE =>
       state[parent[p]] # "SLEEPING"

ProcInv == ProcTypes /\ Stacks /\ Places /\ Forks /\ WaitLocked /\ Family /\ NoMissedExit

-----------------------------------------------------------------------------
(* The invariant is inductive *)

\* The slots of proc[]: userinit's is one of them.
LEMMA ProcFacts == NONE \notin Proc /\ initproc \in Proc
  BY ProcAssumption DEF Proc, initproc

\* Every step of proc.c keeps the types.
LEMMA TypesKept ==
  ASSUME ProcTypes, Forks, Next
  PROVE  ProcTypes'
<1> USE ProcFacts DEF ProcTypes, States, Pcs, Preempted, Forking, Waiting, Exiting, At, Goto, Forks
<1>1. ASSUME NEW p \in Proc, usertrapret(p) PROVE ProcTypes'
  BY <1>1 DEF usertrapret
<1>2. ASSUME NEW p \in Proc, TrapExits(p) PROVE ProcTypes'
  BY <1>2 DEF TrapExits
<1>3. ASSUME NEW p \in Proc, ForkFails(p) PROVE ProcTypes'
  BY <1>3 DEF ForkFails, freeproc
<1>4. ASSUME NEW p \in Proc, ForkCopies(p) PROVE ProcTypes'
  BY <1>4 DEF ForkCopies
<1>5. ASSUME NEW p \in Proc, ForkParent(p) PROVE ProcTypes'
  BY <1>5 DEF ForkParent
<1>6. ASSUME NEW p \in Proc, ForkRun(p) PROVE ProcTypes'
  BY <1>6 DEF ForkRun
<1>7. ASSUME NEW p \in Proc, ExitLocks(p) PROVE ProcTypes'
  BY <1>7 DEF ExitLocks
<1>8. ASSUME NEW p \in Proc, reparent(p) PROVE ProcTypes'
  BY <1>8 DEF reparent, wakeup, Children
<1>9. ASSUME NEW p \in Proc, ExitWakes(p) PROVE ProcTypes'
  BY <1>9 DEF ExitWakes, wakeup
<1>10. ASSUME NEW p \in Proc, ExitZombie(p) PROVE ProcTypes'
  BY <1>10 DEF ExitZombie
<1>11. ASSUME NEW p \in Proc, WaitLocks(p) PROVE ProcTypes'
  BY <1>11 DEF WaitLocks
<1>12. ASSUME NEW p \in Proc, NEW z \in Proc, WaitReaps(p, z) PROVE ProcTypes'
  <2>1. CASE freeproc(z)
    BY <1>12, <2>1 DEF WaitReaps, freeproc
  <2>2. CASE UNCHANGED <<pid, parent, killed, state>>
    BY <1>12, <2>2 DEF WaitReaps
  <2> QED BY <1>12, <2>1, <2>2 DEF WaitReaps
<1>13. ASSUME NEW p \in Proc, WaitFindsNone(p) PROVE ProcTypes'
  <2>1. pc' \in [Proc -> Pcs] /\ waitlock' \in Proc \cup {NONE}
    BY <1>13 DEF WaitFindsNone
  <2> QED BY <1>13, <2>1 DEF WaitFindsNone
<1>14. ASSUME NEW p \in Proc, sleep(p) PROVE ProcTypes'
  BY <1>14 DEF sleep
<1>15. ASSUME NEW p \in Proc, NEW q \in Proc, allocproc(p, q) PROVE ProcTypes'
  <2>1. pc' \in [Proc -> Pcs]
    BY <1>15 DEF allocproc
  <2>2. state' \in [Proc -> States] /\ np' \in [Proc -> Proc \cup {NONE}]
    BY <1>15 DEF allocproc
  <2>3. pid' \in [Proc -> Nat] /\ nextpid' \in Nat
    BY <1>15 DEF allocproc
  <2>4. plock' \in [Proc -> BOOLEAN] /\ switched' \in [Proc -> BOOLEAN]
    BY <1>15 DEF allocproc
  <2> QED BY <1>15, <2>1, <2>2, <2>3, <2>4 DEF allocproc
<1>16. ASSUME NEW p \in Proc, sys_exit(p) PROVE ProcTypes'
  BY <1>16 DEF sys_exit
<1>17. ASSUME NEW p \in Proc, sys_wait(p) PROVE ProcTypes'
  BY <1>17 DEF sys_wait
<1>18. ASSUME NEW p \in Proc, setkilled(p) PROVE ProcTypes'
  BY <1>18 DEF setkilled
<1>19. ASSUME NEW p \in Proc, yield(p) PROVE ProcTypes'
  BY <1>19 DEF yield
<1>20. ASSUME NEW p \in Proc, NEW target \in KillPids, kill(p, target) PROVE ProcTypes'
  <2>1. killed' \in [Proc -> BOOLEAN] /\ state' \in [Proc -> States]
    <3>1. CASE UNCHANGED <<killed, state>>
      BY <3>1
    <3>2. ASSUME NEW q \in Proc, killed' = [killed EXCEPT ![q] = TRUE],
                 state' = IF state[q] = "SLEEPING"
                            THEN [state EXCEPT ![q] = "RUNNABLE"] ELSE state
          PROVE  killed' \in [Proc -> BOOLEAN] /\ state' \in [Proc -> States]
      BY <3>2
    <3> QED BY <1>20, <3>1, <3>2 DEF kill
  <2>2. pc' \in [Proc -> Pcs]
    BY <1>20 DEF kill
  <2> QED BY <1>20, <2>1, <2>2 DEF kill
<1>21. ASSUME NEW p \in Proc, Resume(p) PROVE ProcTypes'
  BY <1>21 DEF Resume
<1>22. ASSUME NEW h \in Hart, SchedReturns(h) PROVE ProcTypes'
  BY <1>22 DEF SchedReturns
<1>23. ASSUME NEW h \in Hart, NEW p \in Proc, scheduler(h, p) PROVE ProcTypes'
  BY <1>23 DEF scheduler
<1> HIDE DEF ProcTypes, States, Pcs, Preempted, Forking, Waiting, Exiting, At, Goto, Forks
<1> QED BY <1>1, <1>2, <1>3, <1>4, <1>5, <1>6, <1>7, <1>8, <1>9, <1>10, <1>11, <1>12, <1>13, <1>14, <1>15, <1>16, <1>17, <1>18, <1>19, <1>20, <1>21, <1>22, <1>23 DEF Next, Step, Call

\* scheduler, sched and p->lock keep every kernel stack to one hart.
LEMMA StacksKept ==
  ASSUME ProcTypes, Stacks, Forks, WaitLocked, Next
  PROVE  Stacks'
<1> USE ProcFacts DEF ProcTypes, States, Pcs, Preempted, Forking, Waiting, Exiting, At, Goto, OnHart, Stacks, Forks, WaitLocked
<1>1. ASSUME NEW p \in Proc, usertrapret(p) PROVE Stacks'
  BY <1>1 DEF usertrapret
<1>2. ASSUME NEW p \in Proc, TrapExits(p) PROVE Stacks'
  BY <1>2 DEF TrapExits
<1>3. ASSUME NEW p \in Proc, ForkFails(p) PROVE Stacks'
  BY <1>3 DEF ForkFails, freeproc
<1>4. ASSUME NEW p \in Proc, ForkCopies(p) PROVE Stacks'
  BY <1>4 DEF ForkCopies
<1>5. ASSUME NEW p \in Proc, ForkParent(p) PROVE Stacks'
  BY <1>5 DEF ForkParent
<1>6. ASSUME NEW p \in Proc, ForkRun(p) PROVE Stacks'
  BY <1>6 DEF ForkRun
<1>7. ASSUME NEW p \in Proc, ExitLocks(p) PROVE Stacks'
  BY <1>7 DEF ExitLocks
<1>8. ASSUME NEW p \in Proc, reparent(p) PROVE Stacks'
  BY <1>8 DEF reparent, wakeup, Children
<1>9. ASSUME NEW p \in Proc, ExitWakes(p) PROVE Stacks'
  BY <1>9 DEF ExitWakes, wakeup
<1>10. ASSUME NEW p \in Proc, ExitZombie(p) PROVE Stacks'
  BY <1>10 DEF ExitZombie
<1>11. ASSUME NEW p \in Proc, WaitLocks(p) PROVE Stacks'
  BY <1>11 DEF WaitLocks
<1>12. ASSUME NEW p \in Proc, NEW z \in Proc, WaitReaps(p, z) PROVE Stacks'
  BY <1>12 DEF WaitReaps, freeproc
<1>13. ASSUME NEW p \in Proc, WaitFindsNone(p) PROVE Stacks'
  BY <1>13 DEF WaitFindsNone, Children
<1>14. ASSUME NEW p \in Proc, sleep(p) PROVE Stacks'
  BY <1>14 DEF sleep
<1>15. ASSUME NEW p \in Proc, NEW q \in Proc, allocproc(p, q) PROVE Stacks'
  BY <1>15 DEF allocproc
<1>16. ASSUME NEW p \in Proc, sys_exit(p) PROVE Stacks'
  BY <1>16 DEF sys_exit
<1>17. ASSUME NEW p \in Proc, sys_wait(p) PROVE Stacks'
  BY <1>17 DEF sys_wait
<1>18. ASSUME NEW p \in Proc, setkilled(p) PROVE Stacks'
  BY <1>18 DEF setkilled
<1>19. ASSUME NEW p \in Proc, yield(p) PROVE Stacks'
  BY <1>19 DEF yield
<1>20. ASSUME NEW p \in Proc, NEW target \in KillPids, kill(p, target) PROVE Stacks'
  BY <1>20 DEF kill
<1>21. ASSUME NEW p \in Proc, Resume(p) PROVE Stacks'
  BY <1>21 DEF Resume
<1>22. ASSUME NEW h \in Hart, SchedReturns(h) PROVE Stacks'
  BY <1>22 DEF SchedReturns
<1>23. ASSUME NEW h \in Hart, NEW p \in Proc, scheduler(h, p) PROVE Stacks'
  <2>1. (\A g \in Hart : cur[g] # p) /\ p # NONE
    BY <1>23 DEF scheduler
  <2>2. \A g, k \in Hart : cur[k] # NONE /\ cur[g] = cur[k] => g = k
    OBVIOUS
  <2>3. \A g \in Hart : cur'[g] = IF g = h THEN p ELSE cur[g]
    BY <1>23 DEF scheduler
  <2>4. \A g, k \in Hart : cur'[k] # NONE /\ cur'[g] = cur'[k] => g = k
    BY ONLY <2>1, <2>2, <2>3
  <2>5. /\ \A q \in Proc : state'[q] = IF q = p THEN "RUNNING" ELSE state[q]
        /\ \A q \in Proc : plock'[q] <=> q = p \/ plock[q]
        /\ switched' = switched /\ switched[p]
    BY <1>23 DEF scheduler
  <2>6. ASSUME NEW q \in Proc, NEW g \in Hart, cur'[g] = q
        PROVE  \/ state'[q] = "RUNNING"
               \/ state'[q] \in {"RUNNABLE", "SLEEPING", "ZOMBIE"} /\ plock'[q]
    <3>1. CASE g = h
      BY <3>1, <2>3, <2>5, <2>6
    <3>2. CASE g # h
      <4>1. cur[g] = q /\ q # p
        BY <3>2, <2>1, <2>3, <2>6
      <4> QED BY <4>1, <2>5
    <3> QED BY <3>1, <3>2
  <2>7. ASSUME NEW q \in Proc, state'[q] = "RUNNING"
        PROVE  (\E g \in Hart : cur'[g] = q) /\ (plock'[q] <=> switched'[q])
    <3>1. CASE q = p
      BY <3>1, <2>3, <2>5
    <3>2. CASE q # p
      <4>1. PICK g \in Hart : cur[g] = q
        BY <2>5, <2>7, <3>2
      <4>2. g # h
        BY <4>1, <1>23 DEF scheduler
      <4> QED BY <4>1, <4>2, <2>3, <2>5, <2>7, <3>2
    <3> QED BY <3>1, <3>2
  <2>8. \A q \in Proc : state'[q] # "RUNNING" => switched'[q]
    BY <2>5
  <2> QED BY ONLY <2>4, <2>6, <2>7, <2>8 DEF Stacks, OnHart
<1> HIDE DEF ProcTypes, States, Pcs, Preempted, Forking, Waiting, Exiting, At, Goto, OnHart, Stacks, Forks, WaitLocked
<1> QED BY <1>1, <1>2, <1>3, <1>4, <1>5, <1>6, <1>7, <1>8, <1>9, <1>10, <1>11, <1>12, <1>13, <1>14, <1>15, <1>16, <1>17, <1>18, <1>19, <1>20, <1>21, <1>22, <1>23 DEF Next, Step, Call

\* A process leaves the kernel, or a hart, only where the code lets it.
LEMMA PlacesKept ==
  ASSUME ProcTypes, Stacks, Places, Forks, Next
  PROVE  Places'
<1> USE ProcFacts DEF ProcTypes, States, Pcs, Preempted, Forking, Waiting, Exiting, At, Goto, OnHart, Stacks, Forks, WaitLocked, Places
<1>1. ASSUME NEW p \in Proc, usertrapret(p) PROVE Places'
  BY <1>1 DEF usertrapret
<1>2. ASSUME NEW p \in Proc, TrapExits(p) PROVE Places'
  BY <1>2 DEF TrapExits
<1>3. ASSUME NEW p \in Proc, ForkFails(p) PROVE Places'
  BY <1>3 DEF ForkFails, freeproc
<1>4. ASSUME NEW p \in Proc, ForkCopies(p) PROVE Places'
  BY <1>4 DEF ForkCopies
<1>5. ASSUME NEW p \in Proc, ForkParent(p) PROVE Places'
  BY <1>5 DEF ForkParent
<1>6. ASSUME NEW p \in Proc, ForkRun(p) PROVE Places'
  BY <1>6 DEF ForkRun
<1>7. ASSUME NEW p \in Proc, ExitLocks(p) PROVE Places'
  BY <1>7 DEF ExitLocks
<1>8. ASSUME NEW p \in Proc, reparent(p) PROVE Places'
  BY <1>8 DEF reparent, wakeup, Children
<1>9. ASSUME NEW p \in Proc, ExitWakes(p) PROVE Places'
  BY <1>9 DEF ExitWakes, wakeup
<1>10. ASSUME NEW p \in Proc, ExitZombie(p) PROVE Places'
  BY <1>10 DEF ExitZombie
<1>11. ASSUME NEW p \in Proc, WaitLocks(p) PROVE Places'
  BY <1>11 DEF WaitLocks
<1>12. ASSUME NEW p \in Proc, NEW z \in Proc, WaitReaps(p, z) PROVE Places'
  BY <1>12 DEF WaitReaps, freeproc
<1>13. ASSUME NEW p \in Proc, WaitFindsNone(p) PROVE Places'
  BY <1>13 DEF WaitFindsNone, Children
<1>14. ASSUME NEW p \in Proc, sleep(p) PROVE Places'
  BY <1>14 DEF sleep
<1>15. ASSUME NEW p \in Proc, NEW q \in Proc, allocproc(p, q) PROVE Places'
  BY <1>15 DEF allocproc
<1>16. ASSUME NEW p \in Proc, sys_exit(p) PROVE Places'
  BY <1>16 DEF sys_exit
<1>17. ASSUME NEW p \in Proc, sys_wait(p) PROVE Places'
  BY <1>17 DEF sys_wait
<1>18. ASSUME NEW p \in Proc, setkilled(p) PROVE Places'
  BY <1>18 DEF setkilled
<1>19. ASSUME NEW p \in Proc, yield(p) PROVE Places'
  BY <1>19 DEF yield
<1>20. ASSUME NEW p \in Proc, NEW target \in KillPids, kill(p, target) PROVE Places'
  BY <1>20 DEF kill
<1>21. ASSUME NEW p \in Proc, Resume(p) PROVE Places'
  BY <1>21 DEF Resume
<1>22. ASSUME NEW h \in Hart, SchedReturns(h) PROVE Places'
  BY <1>22 DEF SchedReturns
<1>23. ASSUME NEW h \in Hart, NEW p \in Proc, scheduler(h, p) PROVE Places'
  BY <1>23 DEF scheduler
<1> HIDE DEF ProcTypes, States, Pcs, Preempted, Forking, Waiting, Exiting, At, Goto, OnHart, Stacks, Forks, WaitLocked, Places
<1> QED BY <1>1, <1>2, <1>3, <1>4, <1>5, <1>6, <1>7, <1>8, <1>9, <1>10, <1>11, <1>12, <1>13, <1>14, <1>15, <1>16, <1>17, <1>18, <1>19, <1>20, <1>21, <1>22, <1>23 DEF Next, Step, Call

\* The slot of a forking process is its own until ForkRun.
LEMMA ForksKept ==
  ASSUME ProcTypes, Stacks, Places, Forks, Next
  PROVE  Forks'
<1> USE ProcFacts DEF ProcTypes, States, Pcs, Preempted, Forking, Waiting, Exiting, At, Goto, OnHart, Stacks, Forks, WaitLocked, Places
<1>1. ASSUME NEW p \in Proc, usertrapret(p) PROVE Forks'
  BY <1>1 DEF usertrapret
<1>2. ASSUME NEW p \in Proc, TrapExits(p) PROVE Forks'
  BY <1>2 DEF TrapExits
<1>3. ASSUME NEW p \in Proc, ForkFails(p) PROVE Forks'
  BY <1>3 DEF ForkFails, freeproc
<1>4. ASSUME NEW p \in Proc, ForkCopies(p) PROVE Forks'
  BY <1>4 DEF ForkCopies
<1>5. ASSUME NEW p \in Proc, ForkParent(p) PROVE Forks'
  BY <1>5 DEF ForkParent
<1>6. ASSUME NEW p \in Proc, ForkRun(p) PROVE Forks'
  BY <1>6 DEF ForkRun
<1>7. ASSUME NEW p \in Proc, ExitLocks(p) PROVE Forks'
  BY <1>7 DEF ExitLocks
<1>8. ASSUME NEW p \in Proc, reparent(p) PROVE Forks'
  BY <1>8 DEF reparent, wakeup, Children
<1>9. ASSUME NEW p \in Proc, ExitWakes(p) PROVE Forks'
  BY <1>9 DEF ExitWakes, wakeup
<1>10. ASSUME NEW p \in Proc, ExitZombie(p) PROVE Forks'
  BY <1>10 DEF ExitZombie
<1>11. ASSUME NEW p \in Proc, WaitLocks(p) PROVE Forks'
  BY <1>11 DEF WaitLocks
<1>12. ASSUME NEW p \in Proc, NEW z \in Proc, WaitReaps(p, z) PROVE Forks'
  <2>1. np' = np /\ plock' = plock
    BY <1>12 DEF WaitReaps
  <2>2. /\ pc' = [pc EXCEPT ![p] = "ret"] /\ pc[p] = "wait_scan"
        /\ \A q \in Proc : state[q] = "USED" => state'[q] = "USED" /\ parent'[q] = parent[q]
        /\ \A q \in Proc : state'[q] = "USED" => state[q] = "USED"
    BY <1>12 DEF WaitReaps, freeproc
  <2> QED BY <2>1, <2>2
<1>13. ASSUME NEW p \in Proc, WaitFindsNone(p) PROVE Forks'
  <2>1. UNCHANGED <<np, plock, state, parent>>
    BY <1>13 DEF WaitFindsNone
  <2>2. /\ pc[p] = "wait_scan" /\ pc'[p] \notin Forking
        /\ \A q \in Proc : q # p => pc'[q] = pc[q]
    BY <1>13 DEF WaitFindsNone
  <2> QED BY <2>1, <2>2
<1>14. ASSUME NEW p \in Proc, sleep(p) PROVE Forks'
  BY <1>14 DEF sleep
<1>15. ASSUME NEW p \in Proc, NEW q \in Proc, allocproc(p, q) PROVE Forks'
  <2>1. /\ p # q /\ state[q] = "UNUSED" /\ state[p] = "RUNNING" /\ parent' = parent
        /\ \A r \in Proc : pc'[r] = IF r = q THEN "user" ELSE IF r = p THEN "fork_copy" ELSE pc[r]
        /\ \A r \in Proc : state'[r] = IF r = q THEN "USED" ELSE state[r]
        /\ \A r \in Proc : plock'[r] <=> r = q \/ plock[r]
        /\ \A r \in Proc : np'[r] = IF r = p THEN q ELSE np[r]
    BY <1>15 DEF allocproc
  <2>2. \A r \in Proc : pc'[r] \in Forking => r = p \/ (r # q /\ pc[r] \in Forking /\ np[r] # q)
    BY <2>1
  <2>3. ASSUME NEW r \in Proc, pc'[r] \in Forking
        PROVE  /\ np'[r] \in Proc /\ state'[np'[r]] = "USED"
               /\ pc'[r] = "fork_copy" => plock'[np'[r]]
               /\ pc'[r] = "fork_run" => parent'[np'[r]] = r
    <3>1. CASE r = p
      BY <3>1, <2>1
    <3>2. CASE r # p
      <4>1. r # q /\ pc'[r] = pc[r] /\ np'[r] = np[r] /\ pc[r] \in Forking /\ np[r] # q
        BY <3>2, <2>1, <2>2, <2>3
      <4> QED BY <4>1, <2>1
    <3> QED BY <3>1, <3>2
  <2>4. \A r, t \in Proc : pc'[r] \in Forking /\ pc'[t] \in Forking /\ np'[r] = np'[t] => r = t
    BY <2>1, <2>2
  <2>5. ASSUME NEW t \in Proc, state'[t] = "USED", plock'[t]
        PROVE  \E r \in Proc : pc'[r] = "fork_copy" /\ np'[r] = t
    <3>1. CASE t = q
      BY <3>1, <2>1
    <3>2. CASE t # q
      <4>1. PICK r \in Proc : pc[r] = "fork_copy" /\ np[r] = t
        BY <3>2, <2>1, <2>5
      <4>2. r # p /\ r # q
        BY <4>1, <1>15 DEF allocproc
      <4> QED BY <4>1, <4>2, <2>1
    <3> QED BY <3>1, <3>2
  <2> QED BY <2>3, <2>4, <2>5
<1>16. ASSUME NEW p \in Proc, sys_exit(p) PROVE Forks'
  BY <1>16 DEF sys_exit
<1>17. ASSUME NEW p \in Proc, sys_wait(p) PROVE Forks'
  BY <1>17 DEF sys_wait
<1>18. ASSUME NEW p \in Proc, setkilled(p) PROVE Forks'
  BY <1>18 DEF setkilled
<1>19. ASSUME NEW p \in Proc, yield(p) PROVE Forks'
  BY <1>19 DEF yield
<1>20. ASSUME NEW p \in Proc, NEW target \in KillPids, kill(p, target) PROVE Forks'
  BY <1>20 DEF kill
<1>21. ASSUME NEW p \in Proc, Resume(p) PROVE Forks'
  BY <1>21 DEF Resume
<1>22. ASSUME NEW h \in Hart, SchedReturns(h) PROVE Forks'
  <2>1. UNCHANGED <<np, state, parent, pc>> /\ cur[h] \in Proc /\ state[cur[h]] # "USED"
    BY <1>22 DEF SchedReturns
  <2>2. \A q \in Proc : q # cur[h] => plock'[q] = plock[q]
    BY <1>22 DEF SchedReturns
  <2> QED BY <2>1, <2>2
<1>23. ASSUME NEW h \in Hart, NEW p \in Proc, scheduler(h, p) PROVE Forks'
  BY <1>23 DEF scheduler
<1> HIDE DEF ProcTypes, States, Pcs, Preempted, Forking, Waiting, Exiting, At, Goto, OnHart, Stacks, Forks, WaitLocked, Places
<1> QED BY <1>1, <1>2, <1>3, <1>4, <1>5, <1>6, <1>7, <1>8, <1>9, <1>10, <1>11, <1>12, <1>13, <1>14, <1>15, <1>16, <1>17, <1>18, <1>19, <1>20, <1>21, <1>22, <1>23 DEF Next, Step, Call

\* wait_lock is given back by whoever took it.
LEMMA WaitLockKept ==
  ASSUME ProcTypes, Stacks, Places, Forks, WaitLocked, Next
  PROVE  WaitLocked'
<1> USE ProcFacts DEF ProcTypes, States, Pcs, Preempted, Forking, Waiting, Exiting, At, Goto, OnHart, Stacks, Forks, WaitLocked, Places
<1>1. ASSUME NEW p \in Proc, usertrapret(p) PROVE WaitLocked'
  BY <1>1 DEF usertrapret
<1>2. ASSUME NEW p \in Proc, TrapExits(p) PROVE WaitLocked'
  BY <1>2 DEF TrapExits
<1>3. ASSUME NEW p \in Proc, ForkFails(p) PROVE WaitLocked'
  BY <1>3 DEF ForkFails, freeproc
<1>4. ASSUME NEW p \in Proc, ForkCopies(p) PROVE WaitLocked'
  BY <1>4 DEF ForkCopies
<1>5. ASSUME NEW p \in Proc, ForkParent(p) PROVE WaitLocked'
  BY <1>5 DEF ForkParent
<1>6. ASSUME NEW p \in Proc, ForkRun(p) PROVE WaitLocked'
  BY <1>6 DEF ForkRun
<1>7. ASSUME NEW p \in Proc, ExitLocks(p) PROVE WaitLocked'
  BY <1>7 DEF ExitLocks
<1>8. ASSUME NEW p \in Proc, reparent(p) PROVE WaitLocked'
  BY <1>8 DEF reparent, wakeup, Children
<1>9. ASSUME NEW p \in Proc, ExitWakes(p) PROVE WaitLocked'
  BY <1>9 DEF ExitWakes, wakeup
<1>10. ASSUME NEW p \in Proc, ExitZombie(p) PROVE WaitLocked'
  BY <1>10 DEF ExitZombie
<1>11. ASSUME NEW p \in Proc, WaitLocks(p) PROVE WaitLocked'
  BY <1>11 DEF WaitLocks
<1>12. ASSUME NEW p \in Proc, NEW z \in Proc, WaitReaps(p, z) PROVE WaitLocked'
  BY <1>12 DEF WaitReaps, freeproc
<1>13. ASSUME NEW p \in Proc, WaitFindsNone(p) PROVE WaitLocked'
  BY <1>13 DEF WaitFindsNone, Children
<1>14. ASSUME NEW p \in Proc, sleep(p) PROVE WaitLocked'
  BY <1>14 DEF sleep
<1>15. ASSUME NEW p \in Proc, NEW q \in Proc, allocproc(p, q) PROVE WaitLocked'
  BY <1>15 DEF allocproc
<1>16. ASSUME NEW p \in Proc, sys_exit(p) PROVE WaitLocked'
  BY <1>16 DEF sys_exit
<1>17. ASSUME NEW p \in Proc, sys_wait(p) PROVE WaitLocked'
  BY <1>17 DEF sys_wait
<1>18. ASSUME NEW p \in Proc, setkilled(p) PROVE WaitLocked'
  BY <1>18 DEF setkilled
<1>19. ASSUME NEW p \in Proc, yield(p) PROVE WaitLocked'
  BY <1>19 DEF yield
<1>20. ASSUME NEW p \in Proc, NEW target \in KillPids, kill(p, target) PROVE WaitLocked'
  BY <1>20 DEF kill
<1>21. ASSUME NEW p \in Proc, Resume(p) PROVE WaitLocked'
  BY <1>21 DEF Resume
<1>22. ASSUME NEW h \in Hart, SchedReturns(h) PROVE WaitLocked'
  BY <1>22 DEF SchedReturns
<1>23. ASSUME NEW h \in Hart, NEW p \in Proc, scheduler(h, p) PROVE WaitLocked'
  <2>1. pc' = pc /\ waitlock' = waitlock /\ state[p] = "RUNNABLE"
    BY <1>23 DEF scheduler
  <2>2. \A q \in Proc : q # p => state'[q] = state[q]
    BY <1>23 DEF scheduler
  <2> QED BY <2>1, <2>2
<1> HIDE DEF ProcTypes, States, Pcs, Preempted, Forking, Waiting, Exiting, At, Goto, OnHart, Stacks, Forks, WaitLocked, Places
<1> QED BY <1>1, <1>2, <1>3, <1>4, <1>5, <1>6, <1>7, <1>8, <1>9, <1>10, <1>11, <1>12, <1>13, <1>14, <1>15, <1>16, <1>17, <1>18, <1>19, <1>20, <1>21, <1>22, <1>23 DEF Next, Step, Call

\* fork, exit and wait leave no process without a parent that can wait for it.
LEMMA FamilyKept ==
  ASSUME ProcTypes, Stacks, Places, Forks, WaitLocked, Family, Next
  PROVE  Family'
<1> USE ProcFacts DEF ProcTypes, States, Pcs, Preempted, Forking, Waiting, Exiting, At, Goto, OnHart, Stacks, Forks, WaitLocked, Places, Family, Living
<1>1. ASSUME NEW p \in Proc, usertrapret(p) PROVE Family'
  BY <1>1 DEF usertrapret
<1>2. ASSUME NEW p \in Proc, TrapExits(p) PROVE Family'
  BY <1>2 DEF TrapExits
<1>3. ASSUME NEW p \in Proc, ForkFails(p) PROVE Family'
  BY <1>3 DEF ForkFails, freeproc
<1>4. ASSUME NEW p \in Proc, ForkCopies(p) PROVE Family'
  BY <1>4 DEF ForkCopies
<1>5. ASSUME NEW p \in Proc, ForkParent(p) PROVE Family'
  BY <1>5 DEF ForkParent
<1>6. ASSUME NEW p \in Proc, ForkRun(p) PROVE Family'
  BY <1>6 DEF ForkRun
<1>7. ASSUME NEW p \in Proc, ExitLocks(p) PROVE Family'
  BY <1>7 DEF ExitLocks
<1>8. ASSUME NEW p \in Proc, reparent(p) PROVE Family'
  BY <1>8 DEF reparent, wakeup, Children
<1>9. ASSUME NEW p \in Proc, ExitWakes(p) PROVE Family'
  BY <1>9 DEF ExitWakes, wakeup
<1>10. ASSUME NEW p \in Proc, ExitZombie(p) PROVE Family'
  BY <1>10 DEF ExitZombie
<1>11. ASSUME NEW p \in Proc, WaitLocks(p) PROVE Family'
  BY <1>11 DEF WaitLocks
<1>12. ASSUME NEW p \in Proc, NEW z \in Proc, WaitReaps(p, z) PROVE Family'
  <2>1. CASE freeproc(z)
    <3>1. z # initproc /\ (\A q \in Proc : parent[q] # z) /\ state[p] = "RUNNING" /\ p # z
      BY <1>12 DEF WaitReaps
    <3>2. /\ \A q \in Proc : state'[q] = IF q = z THEN "UNUSED" ELSE state[q]
          /\ \A q \in Proc : parent'[q] = IF q = z THEN NONE ELSE parent[q]
          /\ \A q \in Proc : pc'[q] = IF q = p THEN "ret" ELSE pc[q]
      BY <1>12, <2>1 DEF WaitReaps, freeproc
    <3> QED BY <3>1, <3>2
  <2>2. CASE UNCHANGED <<pid, parent, killed, state>>
    BY <1>12, <2>2 DEF WaitReaps
  <2> QED BY <1>12, <2>1, <2>2 DEF WaitReaps
<1>13. ASSUME NEW p \in Proc, WaitFindsNone(p) PROVE Family'
  BY <1>13 DEF WaitFindsNone, Children
<1>14. ASSUME NEW p \in Proc, sleep(p) PROVE Family'
  BY <1>14 DEF sleep
<1>15. ASSUME NEW p \in Proc, NEW q \in Proc, allocproc(p, q) PROVE Family'
  BY <1>15 DEF allocproc
<1>16. ASSUME NEW p \in Proc, sys_exit(p) PROVE Family'
  BY <1>16 DEF sys_exit
<1>17. ASSUME NEW p \in Proc, sys_wait(p) PROVE Family'
  BY <1>17 DEF sys_wait
<1>18. ASSUME NEW p \in Proc, setkilled(p) PROVE Family'
  BY <1>18 DEF setkilled
<1>19. ASSUME NEW p \in Proc, yield(p) PROVE Family'
  BY <1>19 DEF yield
<1>20. ASSUME NEW p \in Proc, NEW target \in KillPids, kill(p, target) PROVE Family'
  BY <1>20 DEF kill
<1>21. ASSUME NEW p \in Proc, Resume(p) PROVE Family'
  BY <1>21 DEF Resume
<1>22. ASSUME NEW h \in Hart, SchedReturns(h) PROVE Family'
  BY <1>22 DEF SchedReturns
<1>23. ASSUME NEW h \in Hart, NEW p \in Proc, scheduler(h, p) PROVE Family'
  BY <1>23 DEF scheduler
<1> HIDE DEF ProcTypes, States, Pcs, Preempted, Forking, Waiting, Exiting, At, Goto, OnHart, Stacks, Forks, WaitLocked, Places, Family, Living
<1> QED BY <1>1, <1>2, <1>3, <1>4, <1>5, <1>6, <1>7, <1>8, <1>9, <1>10, <1>11, <1>12, <1>13, <1>14, <1>15, <1>16, <1>17, <1>18, <1>19, <1>20, <1>21, <1>22, <1>23 DEF Next, Step, Call

\* wait_lock and p->lock leave no gap between the scan of wait and its sleep.
LEMMA ExitsSeen ==
  ASSUME ProcTypes, Stacks, Places, Forks, WaitLocked, Family, NoMissedExit, Next
  PROVE  NoMissedExit'
<1> USE ProcFacts DEF ProcTypes, States, Pcs, Preempted, Forking, Waiting, Exiting, At, Goto, OnHart, Stacks, Forks, WaitLocked, Places, Family, Living, NoMissedExit, Children
<1>1. ASSUME NEW p \in Proc, usertrapret(p) PROVE NoMissedExit'
  BY <1>1 DEF usertrapret
<1>2. ASSUME NEW p \in Proc, TrapExits(p) PROVE NoMissedExit'
  BY <1>2 DEF TrapExits
<1>3. ASSUME NEW p \in Proc, ForkFails(p) PROVE NoMissedExit'
  BY <1>3 DEF ForkFails, freeproc
<1>4. ASSUME NEW p \in Proc, ForkCopies(p) PROVE NoMissedExit'
  BY <1>4 DEF ForkCopies
<1>5. ASSUME NEW p \in Proc, ForkParent(p) PROVE NoMissedExit'
  BY <1>5 DEF ForkParent
<1>6. ASSUME NEW p \in Proc, ForkRun(p) PROVE NoMissedExit'
  BY <1>6 DEF ForkRun
<1>7. ASSUME NEW p \in Proc, ExitLocks(p) PROVE NoMissedExit'
  BY <1>7 DEF ExitLocks
<1>8. ASSUME NEW p \in Proc, reparent(p) PROVE NoMissedExit'
  BY <1>8 DEF reparent, wakeup, Children
<1>9. ASSUME NEW p \in Proc, ExitWakes(p) PROVE NoMissedExit'
  BY <1>9 DEF ExitWakes, wakeup
<1>10. ASSUME NEW p \in Proc, ExitZombie(p) PROVE NoMissedExit'
  BY <1>10 DEF ExitZombie
<1>11. ASSUME NEW p \in Proc, WaitLocks(p) PROVE NoMissedExit'
  BY <1>11 DEF WaitLocks
<1>12. ASSUME NEW p \in Proc, NEW z \in Proc, WaitReaps(p, z) PROVE NoMissedExit'
  BY <1>12 DEF WaitReaps, freeproc
<1>13. ASSUME NEW p \in Proc, WaitFindsNone(p) PROVE NoMissedExit'
  BY <1>13 DEF WaitFindsNone, Children
<1>14. ASSUME NEW p \in Proc, sleep(p) PROVE NoMissedExit'
  BY <1>14 DEF sleep
<1>15. ASSUME NEW p \in Proc, NEW q \in Proc, allocproc(p, q) PROVE NoMissedExit'
  BY <1>15 DEF allocproc
<1>16. ASSUME NEW p \in Proc, sys_exit(p) PROVE NoMissedExit'
  BY <1>16 DEF sys_exit
<1>17. ASSUME NEW p \in Proc, sys_wait(p) PROVE NoMissedExit'
  BY <1>17 DEF sys_wait
<1>18. ASSUME NEW p \in Proc, setkilled(p) PROVE NoMissedExit'
  BY <1>18 DEF setkilled
<1>19. ASSUME NEW p \in Proc, yield(p) PROVE NoMissedExit'
  BY <1>19 DEF yield
<1>20. ASSUME NEW p \in Proc, NEW target \in KillPids, kill(p, target) PROVE NoMissedExit'
  BY <1>20 DEF kill
<1>21. ASSUME NEW p \in Proc, Resume(p) PROVE NoMissedExit'
  BY <1>21 DEF Resume
<1>22. ASSUME NEW h \in Hart, SchedReturns(h) PROVE NoMissedExit'
  BY <1>22 DEF SchedReturns
<1>23. ASSUME NEW h \in Hart, NEW p \in Proc, scheduler(h, p) PROVE NoMissedExit'
  BY <1>23 DEF scheduler
<1> HIDE DEF ProcTypes, States, Pcs, Preempted, Forking, Waiting, Exiting, At, Goto, OnHart, Stacks, Forks, WaitLocked, Places, Family, Living, NoMissedExit, Children
<1> QED BY <1>1, <1>2, <1>3, <1>4, <1>5, <1>6, <1>7, <1>8, <1>9, <1>10, <1>11, <1>12, <1>13, <1>14, <1>15, <1>16, <1>17, <1>18, <1>19, <1>20, <1>21, <1>22, <1>23 DEF Next, Step, Call

\* procinit and userinit leave a state of the invariant.
LEMMA ProcInit == Init => ProcInv
<1> USE ProcFacts DEF Init, Started
<1>1. Init => ProcTypes
  BY DEF ProcTypes, States, Pcs, Preempted
<1>2. Init => Stacks
  BY DEF Stacks, OnHart
<1>3. Init => Places
  BY DEF Places, Preempted
<1>4. Init => Forks /\ WaitLocked
  BY DEF Forks, WaitLocked, Forking, Waiting
<1>5. Init => Family /\ NoMissedExit
  BY DEF Family, NoMissedExit, Children, Living, Exiting
<1> QED BY <1>1, <1>2, <1>3, <1>4, <1>5 DEF ProcInv

\* ProcInv holds in every state of the process table.
THEOREM ProcInvariant == Spec => []ProcInv
<1>1. ProcInv /\ [Next]_vars => ProcInv'
  <2> SUFFICES ASSUME ProcInv, [Next]_vars PROVE ProcInv'
    OBVIOUS
  <2>1. CASE Next
    BY <2>1, TypesKept, StacksKept, PlacesKept, ForksKept, WaitLockKept, FamilyKept,
       ExitsSeen DEF ProcInv
  <2>2. CASE UNCHANGED vars
    BY <2>2 DEF vars, ProcInv, ProcTypes, Stacks, OnHart, Places, Forks, WaitLocked,
                Family, NoMissedExit, Children
  <2> QED BY <2>1, <2>2
<1> QED BY <1>1, ProcInit, PTL DEF Spec

\* No two harts are ever on one kernel stack, and none is on the stack of a slot
\* that wait has freed or fork is filling, for any number of harts: scheduler
\* takes and exit, sleep and yield keep p->lock across swtch.
THEOREM StackHasOneHartHolds == Spec => []StackHasOneHart
<1>1. ProcInv => StackHasOneHart
  BY ProcFacts DEF ProcInv, ProcTypes, Stacks, OnHart, StackHasOneHart
<1> QED BY <1>1, ProcInvariant, PTL

\* The wakeup of exit, or of reparent, is never lost: no process sleeps in wait
\* with a ZOMBIE child.
THEOREM SleeperHasNoZombieHolds == Spec => []SleeperHasNoZombie
<1>1. ProcInv => SleeperHasNoZombie
  BY DEF ProcInv, NoMissedExit, SleeperHasNoZombie
<1> QED BY <1>1, ProcInvariant, PTL

\* Every process but init has a living parent to be reaped by.
THEOREM ParentCanWaitHolds == Spec => []ParentCanWait
<1>1. ProcInv => ParentCanWait
  BY DEF ProcInv, ProcTypes, Family, Living, ParentCanWait
<1> QED BY <1>1, ProcInvariant, PTL
=============================================================================
