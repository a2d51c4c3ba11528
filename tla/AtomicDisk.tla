----------------------------- MODULE AtomicDisk -----------------------------
(***************************************************************************)
(* What log.c promises the file system.  System calls write blocks in      *)
(* memory; now and then, when no call is in progress, everything they      *)
(* wrote reaches the disk in one step.  A crash takes the file system back *)
(* to the last such moment, so a call's writes survive together or not at  *)
(* all.                                                                    *)
(***************************************************************************)
EXTENDS Naturals

CONSTANTS Block, Data, Zero

VARIABLES disk,    \* the contents a reboot recovers
          view,    \* the contents the file system reads
          active   \* how many system calls are between begin_op and end_op

vars == <<disk, view, active>>

Init ==
  /\ disk = [b \in Block |-> Zero]
  /\ view = disk
  /\ active = 0

Begin ==
  /\ active' = active + 1
  /\ UNCHANGED <<disk, view>>

Write(b, v) ==
  /\ active > 0
  /\ view' = [view EXCEPT ![b] = v]
  /\ UNCHANGED <<disk, active>>

End ==
  /\ active > 0
  /\ active' = active - 1
  /\ UNCHANGED <<disk, view>>

Commit ==
  /\ active = 0
  /\ disk' = view
  /\ UNCHANGED <<view, active>>

Crash ==
  /\ view' = disk
  /\ active' = 0
  /\ UNCHANGED disk

Next == Begin \/ End \/ Commit \/ Crash \/ \E b \in Block, v \in Data : Write(b, v)

Spec == Init /\ [][Next]_vars
=============================================================================
