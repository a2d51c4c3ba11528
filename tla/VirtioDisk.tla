----------------------------- MODULE VirtioDisk -----------------------------
(***************************************************************************)
(* The disk driver of kernel/virtio_disk.c and the device it talks to.     *)
(* Processes submit requests under vdisk_lock and sleep; the device takes  *)
(* chains of descriptors from the avail ring, completes them in any order  *)
(* and interrupts; the handler holds vdisk_lock while it follows the used  *)
(* ring, which the device goes on filling.  What a process does under the  *)
(* lock between two sleeps is one step: the device sees nothing of it      *)
(* before avail->idx moves.                                                *)
(***************************************************************************)
EXTENDS Integers, FiniteSets, FiniteSetsExt

CONSTANTS DiskProc,  \* processes, each with the buffer it has locked
          NUM,       \* descriptors, and entries of each ring
          IdxRange,  \* the ring indices count modulo this (2^16 in the code)
          NoBuf

ASSUME VirtioAssumption == NUM \in Nat \ {0} /\ IdxRange % NUM = 0 /\ IdxRange >= NUM

VARIABLES
  disk,   \* struct disk: free, desc, info, the rings and used_idx
  dev,    \* the device: next avail entry, chains taken, interrupt line
  req,    \* process -> where it is in virtio_disk_rw, b->disk, its chain
  intr    \* the handler is running (and holds vdisk_lock)

diskVars == <<disk, dev, req, intr>>

Desc == 0..(NUM - 1)
Unused == [addr |-> NoBuf, next |-> -1]   \* next = -1: no VRING_DESC_F_NEXT
Resting == [pc |-> "idle", head |-> -1, disk |-> 0, moved |-> 0]

DiskInit ==
  /\ disk = [free |-> Desc, desc |-> [i \in Desc |-> Unused],
             info |-> [i \in Desc |-> [b |-> NoBuf, status |-> 0]],
             avail |-> [i \in Desc |-> 0], aidx |-> 0,
             used |-> [i \in Desc |-> 0], uidx |-> 0, used_idx |-> 0]
  /\ dev = [next |-> 0, taken |-> {}, owes |-> FALSE, irq |-> FALSE]
  /\ req = [p \in DiskProc |-> Resting]
  /\ intr = FALSE

Inc(k) == (k + 1) % IdxRange

\* free_desc for each descriptor of D: struct disk after it.
free_desc(d, D) ==
  [d EXCEPT !.free = @ \union D, !.desc = [i \in Desc |-> IF i \in D THEN Unused ELSE @[i]]]

\* wakeup(&disk.free[0]): those who wait for descriptors try again.
WakeFree(r) == [p \in DiskProc |-> IF r[p].pc = "nodesc" THEN [r[p] EXCEPT !.pc = "alloc"] ELSE r[p]]

-----------------------------------------------------------------------------
(* virtio_disk_rw *)

StartRw(p) ==
  /\ req[p].pc = "idle"
  /\ req' = [req EXCEPT ![p].pc = "alloc"]
  /\ UNCHANGED <<disk, dev, intr>>

\* Mutant of AllocFails: the last descriptor it took is not given back.
AllocKeepsLast(p) ==
  LET idx == disk.free
  IN /\ req[p].pc = "alloc" /\ ~intr
     /\ Cardinality(disk.free) < 3
     /\ disk' = free_desc([disk EXCEPT !.free = @ \ idx], {i \in idx : \E j \in idx : i < j})
     /\ req' = [(IF idx = {} THEN req ELSE WakeFree(req)) EXCEPT ![p].pc = "nodesc"]
     /\ UNCHANGED <<dev, intr>>

\* alloc3_desc takes the one or two descriptors that are free (or none), finds no
\* third, and gives each back, with a wakeup; the process sleeps.
AllocFails(p) ==
  LET idx == disk.free
  IN /\ req[p].pc = "alloc" /\ ~intr
     /\ Cardinality(disk.free) < 3
     /\ disk' = free_desc([disk EXCEPT !.free = @ \ idx], idx)
     /\ req' = [(IF idx = {} THEN req ELSE WakeFree(req)) EXCEPT ![p].pc = "nodesc"]
     /\ UNCHANGED <<dev, intr>>

\* The first, second and third free descriptor.
alloc3_desc ==
  LET a == Min(disk.free)
      b == Min(disk.free \ {a})
  IN <<a, b, Min(disk.free \ {a, b})>>

\* A chain is formatted, entered in the avail ring and made visible; the
\* process sleeps on its buffer.
virtio_disk_rw(p) ==
  LET idx == alloc3_desc
  IN /\ req[p].pc = "alloc" /\ ~intr
     /\ Cardinality(disk.free) >= 3
     /\ disk' = [disk EXCEPT
          !.free = @ \ {idx[1], idx[2], idx[3]},
          !.desc = [@ EXCEPT ![idx[1]] = [addr |-> idx[1], next |-> idx[2]],
                             ![idx[2]] = [addr |-> p, next |-> idx[3]],
                             ![idx[3]] = [addr |-> idx[1], next |-> -1]],
          !.info[idx[1]] = [b |-> p, status |-> 255],
          !.avail[disk.aidx % NUM] = idx[1],
          !.aidx = Inc(@)]
     /\ req' = [req EXCEPT ![p] = [pc |-> "sleep", head |-> idx[1], disk |-> 1, moved |-> 0]]
     /\ UNCHANGED <<dev, intr>>

\* The descriptors of the chain from i.
free_chain(i) ==
  LET Followed[d \in SUBSET Desc] ==
        LET more == d \union ({disk.desc[j].next : j \in d} \ {-1})
        IN IF more = d THEN d ELSE Followed[more]
  IN Followed[{i}]

\* The process, woken, finds its request done and frees the chain.
Finish(p) ==
  /\ req[p].pc = "woken" /\ ~intr
  /\ IF free_chain(req[p].head) \intersect disk.free # {}
       THEN req' = [req EXCEPT ![p].pc = "panic"] /\ UNCHANGED disk
       ELSE /\ disk' = [free_desc(disk, free_chain(req[p].head)) EXCEPT !.info[req[p].head].b = NoBuf]
            /\ req' = [WakeFree(req) EXCEPT ![p] = Resting]
  /\ UNCHANGED <<dev, intr>>

-----------------------------------------------------------------------------
(* The device *)

\* It takes the next chain of the avail ring (whose entry is dead from now on).
DevTakes ==
  /\ dev.next # disk.aidx
  /\ dev' = [dev EXCEPT !.next = Inc(@), !.taken = @ \union {disk.avail[dev.next % NUM]}]
  /\ disk' = [disk EXCEPT !.avail[dev.next % NUM] = 0]
  /\ UNCHANGED <<req, intr>>

\* It transfers the data of a chain, writes the status and the used ring.
DevCompletes(h) ==
  LET b == disk.desc[disk.desc[h].next].addr
  IN /\ h \in dev.taken
     /\ dev' = [dev EXCEPT !.taken = @ \ {h}, !.owes = TRUE]
     /\ disk' = [disk EXCEPT !.info[h].status = 0, !.used[disk.uidx % NUM] = h, !.uidx = Inc(@)]
     /\ req' = [req EXCEPT ![b].moved = @ + 1]
     /\ UNCHANGED intr

\* It raises the interrupt for what it has completed.
DevInterrupts ==
  /\ dev.owes
  /\ dev' = [dev EXCEPT !.owes = FALSE, !.irq = TRUE]
  /\ UNCHANGED <<disk, req, intr>>

-----------------------------------------------------------------------------
(* virtio_disk_intr *)

\* vdisk_lock and the acknowledgement.
IntrAck ==
  /\ dev.irq /\ ~intr
  /\ dev' = [dev EXCEPT !.irq = FALSE]
  /\ intr' = TRUE
  /\ UNCHANGED <<disk, req>>

\* Mutant of virtio_disk_intr: one entry for each interrupt.
IntrOnce ==
  /\ intr
  /\ disk.used_idx # disk.uidx
  /\ LET b == disk.info[disk.used[disk.used_idx % NUM]].b
     IN req' = [req EXCEPT ![b] = [@ EXCEPT !.disk = 0, !.pc = IF @ = "sleep" THEN "woken" ELSE @]]
  /\ disk' = [disk EXCEPT !.used_idx = Inc(@)]
  /\ intr' = FALSE
  /\ UNCHANGED dev

\* Mutant of virtio_disk_intr: used_idx is moved before it is used.
IntrAfterInc ==
  /\ intr
  /\ disk.used_idx # disk.uidx
  /\ LET b == disk.info[disk.used[Inc(disk.used_idx) % NUM]].b
     IN req' = [req EXCEPT ![b] = [@ EXCEPT !.disk = 0, !.pc = IF @ = "sleep" THEN "woken" ELSE @]]
  /\ disk' = [disk EXCEPT !.used_idx = Inc(@)]
  /\ UNCHANGED <<dev, intr>>

\* One entry of the used ring: the request is done, its process is woken
\* (and the entry of the ring is dead).
virtio_disk_intr ==
  LET id == disk.used[disk.used_idx % NUM]
      b == disk.info[id].b
  IN /\ intr
     /\ disk.used_idx # disk.uidx
     /\ req' = IF disk.info[id].status # 0 \/ b = NoBuf
                 THEN [p \in DiskProc |-> [req[p] EXCEPT !.pc = "panic"]]
                 ELSE [req EXCEPT ![b] = [@ EXCEPT !.disk = 0,
                                                   !.pc = IF @ = "sleep" THEN "woken" ELSE @]]
     /\ disk' = [disk EXCEPT !.used_idx = Inc(@), !.used[disk.used_idx % NUM] = 0]
     /\ UNCHANGED <<dev, intr>>

IntrEnd ==
  /\ intr
  /\ disk.used_idx = disk.uidx
  /\ intr' = FALSE
  /\ UNCHANGED <<disk, dev, req>>

-----------------------------------------------------------------------------
DiskSteps ==
  \/ \E p \in DiskProc : AllocFails(p) \/ virtio_disk_rw(p) \/ Finish(p)
  \/ DevTakes \/ (\E h \in Desc : DevCompletes(h)) \/ DevInterrupts
  \/ IntrAck \/ virtio_disk_intr \/ IntrEnd

DiskNext == (\E p \in DiskProc : StartRw(p)) \/ DiskSteps

\* The device answers and its interrupts are taken; a process that was woken
\* gets vdisk_lock in the end.
DiskFairness ==
  /\ WF_diskVars(DevTakes) /\ WF_diskVars(DevInterrupts)
  /\ WF_diskVars(IntrAck \/ virtio_disk_intr \/ IntrEnd)
  /\ \A p \in DiskProc : WF_diskVars(DevCompletes(req[p].head)) /\ SF_diskVars(Finish(p))

-----------------------------------------------------------------------------
(* Properties *)

InFlight(p) == req[p].pc \in {"sleep", "woken"}

\* Entries of a ring between two indices.
Between(ring, from, to) == {ring[k % NUM] : k \in {j \in 0..(IdxRange - 1) :
  (j - from + IdxRange) % IdxRange < (to - from + IdxRange) % IdxRange}}

\* Every descriptor is free or in the chain of exactly one request, in spite of
\* the failures of alloc3_desc half way; and nobody sleeps for descriptors
\* while three are free, so no wakeup of free_desc is lost.
DescriptorsOwned ==
  /\ \A p \in DiskProc : InFlight(p) =>
       /\ Cardinality(free_chain(req[p].head)) = 3
       /\ free_chain(req[p].head) \intersect disk.free = {}
       /\ \A q \in DiskProc \ {p} : InFlight(q) =>
            free_chain(req[p].head) \intersect free_chain(req[q].head) = {}
  /\ Cardinality(disk.free) + 3 * Cardinality({p \in DiskProc : InFlight(p)}) = NUM
  /\ \A p \in DiskProc : req[p].pc = "nodesc" => Cardinality(disk.free) < 3

\* A request is in one place at a time (the avail ring, the device, the used
\* ring), its data have moved once when its process goes on, never before and
\* never again: no completion is taken for another request's, though they come
\* in any order and while the handler runs, and the ring indices wrap.
TransferredOnce ==
  LET waiting == Between(disk.avail, dev.next, disk.aidx)
      done == Between(disk.used, disk.used_idx, disk.uidx)
      placed(p) == Cardinality({s \in {<<1, waiting>>, <<2, dev.taken>>, <<3, done>>} : req[p].head \in s[2]})
  IN \A p \in DiskProc :
       /\ req[p].pc = "sleep" => placed(p) = 1 /\ req[p].moved = (IF req[p].head \in done THEN 1 ELSE 0)
       /\ req[p].pc = "woken" => placed(p) = 0 /\ req[p].moved = 1
       /\ req[p].pc \in {"idle", "alloc", "nodesc"} => req[p].moved = 0
       /\ req[p].pc # "panic"

\* A request that was submitted finishes, though the device may complete others
\* while the handler is on its way out.
SubmittedFinishes == \A p \in DiskProc : req[p].pc = "sleep" ~> req[p].pc = "idle"

=============================================================================
