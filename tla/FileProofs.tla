----------------------------- MODULE FileProofs -----------------------------
(***************************************************************************)
(* Proofs about open files (File): for every number of processes,          *)
(* descriptors, files and pages, f->ref is the number of references to the *)
(* file, the pipes and inodes behind files are counted exactly, and a file *)
(* in use stays allocated.                                                 *)
(***************************************************************************)
EXTENDS FileSteps

\* Leaves are tried with Zenon first, which is quick to give up.
USE ZenonT(3), SMTT(30)

-----------------------------------------------------------------------------
(* filealloc and pipealloc *)

\* The files of N are allocated with one reference each, which process p gets.
LEMMA NewFiles ==
  ASSUME FileInv, ~Panicked, NEW N \in SUBSET File, NEW p \in Proc, pc[p] = "user",
         \A h \in N : file[h] = NONE /\ file'[h] # NONE /\ file'[h].ref = 1,
         \A h \in File : h \notin N => file'[h] = file[h] /\ Refs(h)' = Refs(h),
         \A h \in N : \/ Refs(h)' = Refs(h) + 1
                      \/ Panicked' /\ Refs(h)' = Refs(h) /\ file'[h].type = "FD_NONE",
         \A q \in Proc : q # p => pc'[q] = pc[q] /\ closing'[q] = closing[q],
         pc'[p] \in {"user", "close", "panic"}
  PROVE  /\ Counted' /\ OneCloser'
         /\ \A h \in N : Holds(h)' /\ ~Holds(h)
         /\ \A h \in File : h \notin N => (Holds(h)' <=> Holds(h))
<1>. USE DEF FileInv
<1>1. \A h \in File : IF file[h] = NONE THEN Refs(h) = 0 ELSE file[h].ref = Refs(h)
  BY RefExact
<1>2. Counted'
  <2>1. ASSUME NEW h \in File
        PROVE  IF file'[h] = NONE THEN Refs(h)' = 0
               ELSE \/ file'[h].ref = Refs(h)'
                    \/ Panicked' /\ Refs(h)' = 0 /\ file'[h].ref = 1 /\ file'[h].type = "FD_NONE"
    BY <1>1
  <2>. QED
    BY <2>1 DEF Counted
<1>3. /\ \A q \in Proc : Finishing(q)' <=> Finishing(q)
      /\ \A q \in Proc : Finishing(q) => closing'[q] = closing[q] /\ Last(q) \in File /\ q # p
  BY LastIsFile DEF Finishing
<1>4. OneCloser'
  <2>1. \A h \in File : (file'[h] # NONE /\ file'[h].ref = 0) <=> (file[h] # NONE /\ file[h].ref = 0)
    <3>1. 1 # 0
      OBVIOUS
    <3>. QED
      BY <3>1
  <2>. QED
    BY <1>3, <2>1, ClosersKept
<1>5. /\ \A q \in Proc : pc'[q] = "free" <=> pc[q] = "free"
      /\ \A q \in Proc : pc[q] = "free" => /\ Last(q)' = Last(q) /\ Last(q) \in File
                                           /\ file[Last(q)] # NONE
  <2>1. \A q \in Proc : pc'[q] = "free" <=> pc[q] = "free"
    OBVIOUS
  <2>2. \A q \in Proc : pc[q] = "free" => Finishing(q)
    BY DEF Finishing
  <2>3. \A q \in Proc : pc[q] = "free" => Last(q)' = Last(q)
    BY <1>3, <2>2 DEF Last
  <2>. QED
    BY <1>3, <2>1, <2>2, <2>3 DEF OneCloser
<1>6. \A h \in N : Holds(h)' /\ ~Holds(h)
  BY <1>5 DEF Holds
<1>7. \A h \in File : h \notin N => (Holds(h)' <=> Holds(h))
  BY <1>5 DEF Holds
<1>. QED
  BY <1>2, <1>4, <1>6, <1>7

\* See NewFiles: when they are not ends of a pipe.
LEMMA PlainFiles ==
  ASSUME Ends, NEW N \in SUBSET File,
         \A h \in N : file'[h].page = NONE /\ file'[h].type # "FD_PIPE",
         \A h \in N : ~Holds(h),
         \A h \in File : h \notin N => file'[h] = file[h] /\ (Holds(h)' <=> Holds(h)),
         pipe' = pipe
  PROVE  Ends'
<1>1. HasPage'
  BY DEF Ends, HasPage
<1>2. ASSUME NEW h \in File, NEW g \in Page, NEW w \in BOOLEAN
      PROVE  IsEnd(h, g, w)' <=> IsEnd(h, g, w)
  BY FileAssumption DEF IsEnd
<1>3. EndIsOpen' /\ OneFilePerEnd' /\ OpenHasEnd'
  <2>1. \A h \in File, g \in Page, w \in BOOLEAN : IsEnd(h, g, w)' <=> IsEnd(h, g, w)
    BY <1>2
  <2>2. EndIsOpen /\ OneFilePerEnd /\ OpenHasEnd
    BY DEF Ends
  <2>. QED
    BY <2>1, <2>2, EndsKept
<1>. QED
  BY <1>1, <1>3 DEF Ends

\* See NewFiles: when they have no inode.
LEMMA NoInodes ==
  ASSUME Inodes, NEW N \in SUBSET File,
         \A h \in N : file'[h].type # "FD_INODE",
         \A h \in N : ~Holds(h),
         \A h \in File : h \notin N => file'[h] = file[h] /\ (Holds(h)' <=> Holds(h)),
         iref' = iref
  PROVE  Inodes'
<1>1. \A h \in File : (Holds(h)' /\ file'[h].type = "FD_INODE") <=> (Holds(h) /\ file[h].type = "FD_INODE")
  OBVIOUS
<1>2. InodeFiles' = InodeFiles
  BY <1>1 DEF InodeFiles
<1>. QED
  BY <1>2 DEF Inodes

\* A process in a system call gets descriptors, or begins to close one or two
\* files.
LEMMA UserLoops ==
  ASSUME FileTypes, Loops, Using, Forks, NEW p \in Proc, pc[p] = "user",
         child' = child, next' = next, using' = using,
         \A q \in Proc : q # p => ofile'[q] = ofile[q] /\ closing'[q] = closing[q] /\ pc'[q] = pc[q],
         \/ pc'[p] \in {"user", "panic"} /\ Len(closing'[p]) = 0
         \/ pc'[p] = "close" /\ Len(closing'[p]) \in {1, 2}
  PROVE  Loops' /\ Using' /\ Forks'
<1>1. next[p] = 0 /\ \A fd \in Fd : ~(fd < 0)
  <2>1. \A fd \in Fd : ~(fd < 0)
    BY FileSizes
  <2>. QED
    BY <2>1, NextIsNat
<1>2. /\ pc'[p] \in {"close", "put", "free"} <=> Len(closing'[p]) > 0
      /\ Len(closing'[p]) <= 2
  <2>1. CASE pc'[p] \in {"user", "panic"} /\ Len(closing'[p]) = 0
    BY <2>1
  <2>2. CASE pc'[p] = "close" /\ Len(closing'[p]) = 1
    BY <2>2
  <2>3. CASE pc'[p] = "close" /\ Len(closing'[p]) = 2
    BY <2>3
  <2>. QED
    BY <2>1, <2>2, <2>3
<1>3. Loops'
  <2>1. ~(0 > 0)
    OBVIOUS
  <2>. QED
    BY <1>1, <1>2, <2>1 DEF Loops
<1>4. Using'
  BY DEF Using
<1>5. Forks'
  <2>1. \A q \in Proc : pc'[q] = "fork" => q # p /\ pc[q] = "fork" /\ child[q] # p
    BY DEF Forks
  <2>. QED
    BY <2>1 DEF Forks
<1>. QED
  BY <1>3, <1>4, <1>5

\* A place that is not a descriptor that changes.
LEMMA RowOther ==
  ASSUME NEW fds, NEW fds2, NEW cl, NEW w, NEW k \in Slot, k \in Fd => fds2[k] = fds[k]
  PROVE  HeldBy(fds2, cl, w, k) = HeldBy(fds, cl, w, k)
<1>1. CASE k \in Fd
  BY <1>1, FdHolds
<1>2. CASE k \notin Fd
  BY <1>2, CloseHolds
<1>. QED
  BY <1>1, <1>2

\* The two new references of a process at two places.
LEMMA TwoPlaces ==
  ASSUME NEW p \in Proc, NEW m \in Slot, NEW n \in Slot, m # n, NEW f \in File, NEW g \in File, f # g,
         \A q \in Proc : q # p => /\ ofile'[q] = ofile[q] /\ closing'[q] = closing[q]
                                  /\ pc'[q] = pc[q],
         \A k \in Slot : k # m /\ k # n =>
           HeldBy(ofile'[p], closing'[p], pc'[p], k) = HeldBy(ofile[p], closing[p], pc[p], k),
         HeldBy(ofile[p], closing[p], pc[p], m) = NONE, HeldBy(ofile'[p], closing'[p], pc'[p], m) = f,
         HeldBy(ofile[p], closing[p], pc[p], n) = NONE, HeldBy(ofile'[p], closing'[p], pc'[p], n) = g
  PROVE  \A h \in File : Refs(h)' = IF h \in {f, g} THEN Refs(h) + 1 ELSE Refs(h)
<1>1. /\ <<p, m>> \in Place /\ <<p, n>> \in Place /\ <<p, m>> # <<p, n>>
      /\ Held[<<p, m>>] = NONE /\ Held'[<<p, m>>] = f
      /\ Held[<<p, n>>] = NONE /\ Held'[<<p, n>>] = g
  BY HeldRows
<1>2. \A e \in Place : e # <<p, m>> /\ e # <<p, n>> => Held'[e] = Held[e]
  <2>1. \A q \in Proc, k \in Slot : q # p \/ (k # m /\ k # n) => Held'[<<q, k>>] = Held[<<q, k>>]
    BY HeldRows
  <2>2. \A e \in Place : e = <<e[1], e[2]>> /\ e[1] \in Proc /\ e[2] \in Slot
    BY DEF Place
  <2>. QED
    BY <2>1, <2>2
<1>. QED
  BY <1>1, <1>2, TwoGained

\* What a process in a system call holds: its descriptors.
LEMMA UserRow ==
  ASSUME FileTypes, Loops, NEW p \in Proc, pc[p] = "user"
  PROVE  /\ Len(closing[p]) = 0 /\ NOFILE \in Slot /\ NOFILE + 1 \in Slot
         /\ \A k \in Fd : k \in Slot /\ HeldBy(ofile[p], closing[p], pc[p], k) = ofile[p][k]
         /\ HeldBy(ofile[p], closing[p], pc[p], NOFILE) = NONE
         /\ HeldBy(ofile[p], closing[p], pc[p], NOFILE + 1) = NONE
<1>1. Len(closing[p]) = 0 /\ Len(closing[p]) \in Nat
  <2>1. Len(closing[p]) \in Nat
    BY DEF FileTypes
  <2>2. ~(Len(closing[p]) > 0)
    BY DEF Loops
  <2>. QED
    BY <2>1, <2>2
<1>2. /\ HeldBy(ofile[p], closing[p], pc[p], NOFILE) = NONE
      /\ HeldBy(ofile[p], closing[p], pc[p], NOFILE + 1) = NONE
  BY <1>1, HeldIs
<1>3. \A k \in Fd : HeldBy(ofile[p], closing[p], pc[p], k) = ofile[p][k]
  BY FdHolds
<1>4. NOFILE \in Slot /\ NOFILE + 1 \in Slot /\ \A k \in Fd : k \in Slot
  BY FileSizes
<1>. QED
  BY <1>1, <1>2, <1>3, <1>4

\* open.
LEMMA StepOpen ==
  ASSUME FileInv, NEW p \in Proc, sys_open(p)
  PROVE  FileInv'
<1>. USE DEF FileInv
<1>1. pc[p] = "user" /\ ~Panicked /\ UNCHANGED <<pipe, child, next, using>>
  BY DEF sys_open, At, Panicked
<1>2. PICK f \in File :
        /\ file[f] = NONE
        /\ \/ \E fd \in Fd :
                /\ fdalloc(p, fd)
                /\ file' = [file EXCEPT ![f] = Inode]
                /\ ofile' = [ofile EXCEPT ![p][fd] = f]
                /\ iref' = iref + 1
                /\ UNCHANGED <<pc, closing>>
           \/ /\ file' = [file EXCEPT ![f] = [Inode EXCEPT !.type = "FD_NONE"]]
              /\ closing' = [closing EXCEPT ![p] = <<f>>]
              /\ Goto(p, "close")
              /\ UNCHANGED <<ofile, iref>>
  BY DEF sys_open, FreeFiles
<1>3. /\ Len(closing[p]) = 0 /\ NOFILE \in Slot /\ NOFILE + 1 \in Slot
      /\ \A k \in Fd : k \in Slot /\ HeldBy(ofile[p], closing[p], pc[p], k) = ofile[p][k]
      /\ HeldBy(ofile[p], closing[p], pc[p], NOFILE) = NONE
      /\ HeldBy(ofile[p], closing[p], pc[p], NOFILE + 1) = NONE
  BY <1>1, UserRow
<1>4. PICK N \in SUBSET File : N = {f}
  OBVIOUS
<1>5. ASSUME NEW fd \in Fd, fdalloc(p, fd), file' = [file EXCEPT ![f] = Inode],
             ofile' = [ofile EXCEPT ![p][fd] = f], iref' = iref + 1, pc' = pc, closing' = closing
      PROVE  FileInv'
  <2>1. ofile[p][fd] = NONE
    BY <1>5 DEF fdalloc, FreeFd
  <2>2. /\ ofile' \in [Proc -> [Fd -> File \union {NONE}]]
        /\ \A r \in Proc : r # p => ofile'[r] = ofile[r]
        /\ \A k \in Fd : ofile'[p][k] = IF k = fd THEN f ELSE ofile[p][k]
    BY <1>5 DEF FileTypes
  <2>3. /\ Inode \in StructFile /\ Inode.ref = 1 /\ Inode.type = "FD_INODE" /\ Inode.page = NONE
        /\ Inode # NONE
    <3>1. Inode \in StructFile
      BY DEF Inode, StructFile
    <3>. QED
      BY <3>1, FileAssumption DEF Inode
  <2>4. /\ file' \in [File -> StructFile \union {NONE}]
        /\ \A h \in File : file'[h] = IF h = f THEN Inode ELSE file[h]
    BY <1>5, <2>3 DEF FileTypes
  <2>5. FileTypes'
    <3>1. iref' \in Nat
      BY <1>5 DEF FileTypes
    <3>. QED
      BY <1>1, <1>5, <2>2, <2>4, <3>1 DEF FileTypes
  <2>6. Loops' /\ Using' /\ Forks'
    BY <1>1, <1>3, <1>5, <2>2, UserLoops
  <2>7. fd \in Slot /\ <<p, fd>> \in Place
    BY <1>3, HeldRows
  <2>8. /\ HeldBy(ofile[p], closing[p], pc[p], fd) = NONE
        /\ HeldBy(ofile'[p], closing[p], pc[p], fd) = f
        /\ \A k \in Slot : k # fd =>
             HeldBy(ofile'[p], closing[p], pc[p], k) = HeldBy(ofile[p], closing[p], pc[p], k)
    <3>1. \A k \in Fd : k # fd => ofile'[p][k] = ofile[p][k]
      BY <2>2
    <3>2. ofile'[p][fd] = f
      BY <2>2
    <3>3. \A k \in Slot : k # fd =>
            HeldBy(ofile'[p], closing[p], pc[p], k) = HeldBy(ofile[p], closing[p], pc[p], k)
      BY <3>1, RowOther
    <3>. QED
      BY <2>1, <3>2, <3>3, FdHolds
  <2>9. Held[<<p, fd>>] = NONE /\ Held'[<<p, fd>>] = f
    BY <1>5, <2>7, <2>8, HeldRows
  <2>10. \A e \in Place : e # <<p, fd>> => Held'[e] = Held[e]
    <3>1. \A r \in Proc : r # p => /\ ofile'[r] = ofile[r] /\ closing'[r] = closing[r]
                                   /\ pc'[r] = pc[r]
      BY <1>5, <2>2
    <3>2. \A k \in Slot : k # fd =>
            HeldBy(ofile'[p], closing'[p], pc'[p], k) = HeldBy(ofile[p], closing[p], pc[p], k)
      BY <1>5, <2>8
    <3>. QED
      BY <2>7, <3>1, <3>2, OnePlace
  <2>11. \A h \in File : Refs(h)' = IF h = f THEN Refs(h) + 1 ELSE Refs(h)
    BY <2>7, <2>9, <2>10, RefGained
  <2>12. /\ \A h \in N : file[h] = NONE /\ file'[h] # NONE /\ file'[h].ref = 1
         /\ \A h \in File : h \notin N => file'[h] = file[h] /\ Refs(h)' = Refs(h)
         /\ \A h \in N : Refs(h)' = Refs(h) + 1
    BY <1>2, <1>4, <2>3, <2>4, <2>11
  <2>13. /\ Counted' /\ OneCloser'
         /\ \A h \in N : Holds(h)' /\ ~Holds(h)
         /\ \A h \in File : h \notin N => (Holds(h)' <=> Holds(h))
    BY <1>1, <1>5, <2>12, NewFiles
  <2>14. Ends'
    <3>1. \A h \in N : file'[h].page = NONE /\ file'[h].type # "FD_PIPE"
      BY <1>4, <2>3, <2>4
    <3>. QED
      BY <1>1, <2>12, <2>13, <3>1, PlainFiles
  <2>15. Inodes'
    <3>1. f \notin InodeFiles /\ InodeFiles' = InodeFiles \union {f}
      <4>1. Holds(f)' /\ ~Holds(f) /\ file'[f].type = "FD_INODE"
        BY <1>4, <2>3, <2>4, <2>13
      <4>2. \A h \in File : h # f => file'[h] = file[h] /\ (Holds(h)' <=> Holds(h))
        BY <1>4, <2>12, <2>13
      <4>. QED
        BY <4>1, <4>2 DEF InodeFiles
    <3>2. IsFiniteSet(InodeFiles)
      BY FileAssumption, FS_Subset DEF InodeFiles
    <3>3. Cardinality(InodeFiles \union {f}) = Cardinality(InodeFiles) + 1
      BY <3>1, <3>2, FS_AddElement
    <3>. QED
      BY <1>5, <3>1, <3>3 DEF Inodes
  <2>. QED
    BY <2>5, <2>6, <2>13, <2>14, <2>15
<1>6. ASSUME file' = [file EXCEPT ![f] = [Inode EXCEPT !.type = "FD_NONE"]],
             closing' = [closing EXCEPT ![p] = <<f>>], pc' = [pc EXCEPT ![p] = "close"],
             ofile' = ofile, iref' = iref
      PROVE  FileInv'
  <2>1. PICK cl \in Seq(File) : cl = <<f>> /\ Len(cl) = 1 /\ cl[1] = f
    BY OneFile
  <2>2. PICK s \in StructFile : /\ s = [Inode EXCEPT !.type = "FD_NONE"] /\ s # NONE
                                /\ s.ref = 1 /\ s.type = "FD_NONE" /\ s.page = NONE
    <3>1. [Inode EXCEPT !.type = "FD_NONE"] \in StructFile
      BY DEF Inode, StructFile
    <3>. QED
      BY <3>1, FileAssumption DEF Inode
  <2>3. /\ closing' \in [Proc -> Seq(File)] /\ pc' \in [Proc -> FilePcs]
        /\ closing'[p] = cl /\ pc'[p] = "close"
        /\ \A q \in Proc : q # p => closing'[q] = closing[q] /\ pc'[q] = pc[q]
    BY <1>6, <2>1 DEF FileTypes, FilePcs
  <2>4. /\ file' \in [File -> StructFile \union {NONE}]
        /\ \A h \in File : file'[h] = IF h = f THEN s ELSE file[h]
    BY <1>6, <2>2 DEF FileTypes
  <2>5. FileTypes'
    BY <1>1, <1>6, <2>3, <2>4 DEF FileTypes
  <2>6. Loops' /\ Using' /\ Forks'
    <3>1. \A q \in Proc : q # p => ofile'[q] = ofile[q] /\ closing'[q] = closing[q] /\ pc'[q] = pc[q]
      BY <1>6, <2>3
    <3>2. pc'[p] = "close" /\ Len(closing'[p]) \in {1, 2}
      BY <2>1, <2>3, Zenon
    <3>. QED
      BY <1>1, <3>1, <3>2, UserLoops
  <2>7. <<p, NOFILE>> \in Place
    BY <1>3, HeldRows
  <2>8. /\ HeldBy(ofile[p], cl, "close", NOFILE) = f
        /\ HeldBy(ofile[p], cl, "close", NOFILE + 1) = NONE
    BY <2>1, HeldOne
  <2>9. \A k \in Slot : k # NOFILE =>
           HeldBy(ofile[p], cl, "close", k) = HeldBy(ofile[p], closing[p], pc[p], k)
    <3>1. \A k \in Fd : HeldBy(ofile[p], cl, "close", k) = ofile[p][k]
      BY FdHolds
    <3>. QED
      BY <1>3, <2>8, <3>1, FileSizes
  <2>10. Held[<<p, NOFILE>>] = NONE /\ Held'[<<p, NOFILE>>] = f
    BY <1>3, <1>6, <2>3, <2>8, HeldRows
  <2>11. \A e \in Place : e # <<p, NOFILE>> => Held'[e] = Held[e]
    <3>1. \A k \in Slot : k # NOFILE =>
            HeldBy(ofile'[p], closing'[p], pc'[p], k) = HeldBy(ofile[p], closing[p], pc[p], k)
      BY <1>6, <2>3, <2>9
    <3>. QED
      BY <1>3, <1>6, <2>3, <3>1, OnePlace
  <2>12. \A h \in File : Refs(h)' = IF h = f THEN Refs(h) + 1 ELSE Refs(h)
    BY <2>7, <2>10, <2>11, RefGained
  <2>13. /\ \A h \in N : file[h] = NONE /\ file'[h] # NONE /\ file'[h].ref = 1
         /\ \A h \in File : h \notin N => file'[h] = file[h] /\ Refs(h)' = Refs(h)
         /\ \A h \in N : Refs(h)' = Refs(h) + 1
    BY <1>2, <1>4, <2>2, <2>4, <2>12
  <2>14. /\ Counted' /\ OneCloser'
         /\ \A h \in N : Holds(h)' /\ ~Holds(h)
         /\ \A h \in File : h \notin N => (Holds(h)' <=> Holds(h))
    <3>1. /\ \A q \in Proc : q # p => pc'[q] = pc[q] /\ closing'[q] = closing[q]
          /\ pc'[p] \in {"user", "close", "panic"}
      BY <2>3
    <3>. QED
      BY <1>1, <2>13, <3>1, NewFiles
  <2>15. \A h \in N : file'[h].page = NONE /\ file'[h].type # "FD_PIPE" /\ file'[h].type # "FD_INODE"
    BY <1>4, <2>2, <2>4
  <2>16. Ends'
    BY <1>1, <2>13, <2>14, <2>15, PlainFiles
  <2>17. Inodes'
    BY <1>6, <2>13, <2>14, <2>15, NoInodes
  <2>. QED
    BY <2>5, <2>6, <2>14, <2>16, <2>17
<1>. QED
  BY <1>2, <1>5, <1>6 DEF Goto

\* A process begins to close two files.
LEMMA TwoCloses ==
  ASSUME FileTypes, Loops, NEW p \in Proc, pc[p] = "user", NEW cl, Len(cl) = 2,
         NEW f \in File, NEW g \in File, f # g, cl[1] = f, cl[2] = g,
         ofile' = ofile, closing'[p] = cl, pc'[p] = "close",
         \A q \in Proc : q # p => closing'[q] = closing[q] /\ pc'[q] = pc[q]
  PROVE  \A h \in File : Refs(h)' = IF h \in {g, f} THEN Refs(h) + 1 ELSE Refs(h)
<1>1. /\ NOFILE \in Slot /\ NOFILE + 1 \in Slot
      /\ \A k \in Fd : HeldBy(ofile[p], closing[p], pc[p], k) = ofile[p][k]
      /\ HeldBy(ofile[p], closing[p], pc[p], NOFILE) = NONE
      /\ HeldBy(ofile[p], closing[p], pc[p], NOFILE + 1) = NONE
  BY UserRow
<1>2. /\ HeldBy(ofile[p], cl, "close", NOFILE) = g
      /\ HeldBy(ofile[p], cl, "close", NOFILE + 1) = f
  BY HeldTwo
<1>3. \A k \in Fd : HeldBy(ofile[p], cl, "close", k) = ofile[p][k]
  BY FdHolds
<1>4. \A k \in Slot : k # NOFILE /\ k # NOFILE + 1 =>
        HeldBy(ofile'[p], closing'[p], pc'[p], k) = HeldBy(ofile[p], closing[p], pc[p], k)
  BY <1>1, <1>3, FileSizes
<1>5. NOFILE # NOFILE + 1
  BY FileSizes
<1>6. /\ HeldBy(ofile'[p], closing'[p], pc'[p], NOFILE) = g
      /\ HeldBy(ofile'[p], closing'[p], pc'[p], NOFILE + 1) = f
  BY <1>2
<1>7. \A q \in Proc : q # p => ofile'[q] = ofile[q] /\ closing'[q] = closing[q] /\ pc'[q] = pc[q]
  OBVIOUS
<1>. QED
  BY <1>1, <1>4, <1>5, <1>6, <1>7, TwoPlaces

\* A sequence of two files.
LEMMA TwoFiles ==
  ASSUME NEW f \in File, NEW g \in File
  PROVE  \E cl \in Seq(File) : cl = <<f, g>> /\ Len(cl) = 2 /\ cl[1] = f /\ cl[2] = g
<1>1. <<f, g>> \in Seq(File) /\ Len(<<f, g>>) = 2 /\ <<f, g>>[1] = f /\ <<f, g>>[2] = g
  OBVIOUS
<1>. QED
  BY <1>1

\* pipealloc fails, or panics.
LEMMA StepPipeallocFails ==
  ASSUME FileInv, NEW p \in Proc, PipeallocFails(p)
  PROVE  FileInv'
<1>. USE DEF FileInv
<1>1. pc[p] = "user" /\ ~Panicked /\ UNCHANGED <<pipe, iref, ofile, child, next, using>>
  BY DEF PipeallocFails, At, Panicked
<1>2. PICK s \in StructFile : /\ s = [Inode EXCEPT !.type = "FD_NONE"] /\ s # NONE
                              /\ s.ref = 1 /\ s.type = "FD_NONE" /\ s.page = NONE
  <2>1. [Inode EXCEPT !.type = "FD_NONE"] \in StructFile
    BY DEF Inode, StructFile
  <2>. QED
    BY <2>1, FileAssumption DEF Inode
<1>3. ASSUME NEW N \in SUBSET File, \A h \in N : file[h] = NONE,
             \A h \in File : file'[h] = IF h \in N THEN s ELSE file[h],
             \A h \in File : h \notin N => Refs(h)' = Refs(h),
             \A h \in N : Refs(h)' = Refs(h) + 1 \/ (Panicked' /\ Refs(h)' = Refs(h)),
             \A q \in Proc : q # p => closing'[q] = closing[q] /\ pc'[q] = pc[q],
             pc'[p] \in {"user", "close", "panic"}
      PROVE  Counted' /\ OneCloser' /\ Ends' /\ Inodes'
  <2>1. /\ \A h \in N : file[h] = NONE /\ file'[h] # NONE /\ file'[h].ref = 1
        /\ \A h \in File : h \notin N => file'[h] = file[h] /\ Refs(h)' = Refs(h)
        /\ \A h \in N : \/ Refs(h)' = Refs(h) + 1
                        \/ Panicked' /\ Refs(h)' = Refs(h) /\ file'[h].type = "FD_NONE"
    BY <1>2, <1>3
  <2>2. /\ Counted' /\ OneCloser'
        /\ \A h \in N : Holds(h)' /\ ~Holds(h)
        /\ \A h \in File : h \notin N => (Holds(h)' <=> Holds(h))
    BY <1>1, <1>3, <2>1, NewFiles
  <2>3. \A h \in N : file'[h].page = NONE /\ file'[h].type # "FD_PIPE" /\ file'[h].type # "FD_INODE"
    BY <1>2, <1>3
  <2>4. Ends'
    BY <1>1, <2>1, <2>2, <2>3, PlainFiles
  <2>5. Inodes'
    BY <1>1, <2>1, <2>2, <2>3, NoInodes
  <2>. QED
    BY <2>2, <2>4, <2>5
<1>4. ASSUME NEW rf \in File, NEW wf \in File, file[rf] = NONE, file[wf] = NONE, rf # wf,
             file' = [f \in File |-> IF f \in {rf, wf}
                                       THEN [Inode EXCEPT !.type = "FD_NONE"] ELSE file[f]],
             closing' = [closing EXCEPT ![p] = <<rf, wf>>], pc' = [pc EXCEPT ![p] = "close"]
      PROVE  FileInv'
  <2>1. PICK cl \in Seq(File) : cl = <<rf, wf>> /\ Len(cl) = 2 /\ cl[1] = rf /\ cl[2] = wf
    BY TwoFiles
  <2>2. PICK N \in SUBSET File : N = {rf, wf}
    OBVIOUS
  <2>3. /\ closing' \in [Proc -> Seq(File)] /\ pc' \in [Proc -> FilePcs]
        /\ closing'[p] = cl /\ pc'[p] = "close"
        /\ \A q \in Proc : q # p => closing'[q] = closing[q] /\ pc'[q] = pc[q]
    BY <1>4, <2>1 DEF FileTypes, FilePcs
  <2>4. /\ file' \in [File -> StructFile \union {NONE}]
        /\ \A h \in File : file'[h] = IF h \in N THEN s ELSE file[h]
    BY <1>2, <1>4, <2>2 DEF FileTypes
  <2>5. FileTypes'
    BY <1>1, <2>3, <2>4 DEF FileTypes
  <2>6. Loops' /\ Using' /\ Forks'
    <3>1. \A q \in Proc : q # p => ofile'[q] = ofile[q] /\ closing'[q] = closing[q] /\ pc'[q] = pc[q]
      BY <1>1, <2>3
    <3>2. pc'[p] = "close" /\ Len(closing'[p]) \in {1, 2}
      BY <2>1, <2>3, Zenon
    <3>. QED
      BY <1>1, <3>1, <3>2, UserLoops
  <2>7. \A h \in File : Refs(h)' = IF h \in {wf, rf} THEN Refs(h) + 1 ELSE Refs(h)
    <3>1. closing'[p] = cl /\ pc'[p] = "close"
          /\ \A q \in Proc : q # p => closing'[q] = closing[q] /\ pc'[q] = pc[q]
      BY <2>3
    <3>. QED
      BY <1>1, <1>4, <2>1, <3>1, TwoCloses
  <2>8. Counted' /\ OneCloser' /\ Ends' /\ Inodes'
    <3>1. /\ \A h \in N : file[h] = NONE /\ Refs(h)' = Refs(h) + 1
          /\ \A h \in File : h \notin N => Refs(h)' = Refs(h)
      BY <1>4, <2>2, <2>7
    <3>2. /\ \A q \in Proc : q # p => closing'[q] = closing[q] /\ pc'[q] = pc[q]
          /\ pc'[p] \in {"user", "close", "panic"}
      BY <2>3
    <3>. QED
      BY <1>3, <2>4, <3>1, <3>2
  <2>. QED
    BY <2>5, <2>6, <2>8
<1>5. ASSUME NEW rf \in File, file[rf] = NONE,
             file' = [file EXCEPT ![rf] = [Inode EXCEPT !.type = "FD_NONE"]],
             pc' = [pc EXCEPT ![p] = "panic"], closing' = closing
      PROVE  FileInv'
  <2>1. PICK N \in SUBSET File : N = {rf}
    OBVIOUS
  <2>2. /\ file' \in [File -> StructFile \union {NONE}]
        /\ \A h \in File : file'[h] = IF h \in N THEN s ELSE file[h]
    BY <1>2, <1>5, <2>1 DEF FileTypes
  <2>3. /\ pc' \in [Proc -> FilePcs] /\ pc'[p] = "panic" /\ Panicked'
        /\ \A q \in Proc : q # p => pc'[q] = pc[q]
    BY <1>5 DEF FileTypes, FilePcs, Panicked
  <2>4. FileTypes'
    BY <1>1, <1>5, <2>2, <2>3 DEF FileTypes
  <2>5. Len(closing[p]) = 0
    BY <1>1, UserRow
  <2>6. Loops' /\ Using' /\ Forks'
    <3>1. \A q \in Proc : q # p => ofile'[q] = ofile[q] /\ closing'[q] = closing[q] /\ pc'[q] = pc[q]
      BY <1>1, <1>5, <2>3
    <3>2. pc'[p] \in {"user", "panic"} /\ Len(closing'[p]) = 0
      BY <1>5, <2>3, <2>5
    <3>. QED
      BY <1>1, <3>1, <3>2, UserLoops
  <2>7. \A h \in File : Refs(h)' = Refs(h)
    <3>1. \A q \in Proc : \A k \in Slot :
            HeldBy(ofile'[q], closing'[q], pc'[q], k) = HeldBy(ofile[q], closing[q], pc[q], k)
      <4>1. SUFFICES ASSUME NEW q \in Proc
                     PROVE  \A k \in Slot : HeldBy(ofile[q], closing[q], pc'[q], k)
                                              = HeldBy(ofile[q], closing[q], pc[q], k)
        BY <1>1, <1>5
      <4>2. Len(closing[q]) \in Nat /\ (pc'[q] = "close" <=> pc[q] = "close")
        BY <1>1, <2>3 DEF FileTypes
      <4>. QED
        BY <4>2, SameRow
    <3>. QED
      BY <3>1, RefsKept
  <2>8. Counted' /\ OneCloser' /\ Ends' /\ Inodes'
    <3>1. /\ \A h \in N : file[h] = NONE /\ Panicked' /\ Refs(h)' = Refs(h)
          /\ \A h \in File : h \notin N => Refs(h)' = Refs(h)
      BY <1>5, <2>1, <2>3, <2>7
    <3>2. /\ \A q \in Proc : q # p => closing'[q] = closing[q] /\ pc'[q] = pc[q]
          /\ pc'[p] \in {"user", "close", "panic"}
      BY <1>5, <2>3
    <3>. QED
      BY <1>3, <2>2, <3>1, <3>2
  <2>. QED
    BY <2>4, <2>6, <2>8
<1>. QED
  BY <1>1, <1>4, <1>5 DEF PipeallocFails, FreeFiles, Goto

\* pipe.
LEMMA StepPipe ==
  ASSUME FileInv, NEW p \in Proc, sys_pipe(p)
  PROVE  FileInv'
<1>. USE DEF FileInv
<1>1. pc[p] = "user" /\ ~Panicked /\ UNCHANGED <<iref, child, next, using>>
  BY DEF sys_pipe, At, Panicked
<1>2. PICK rf \in File, wf \in File, g \in Page :
        /\ file[rf] = NONE /\ file[wf] = NONE /\ rf # wf /\ pipe[g] = NONE
        /\ file' = [file EXCEPT ![rf] = End(g, FALSE), ![wf] = End(g, TRUE)]
        /\ pipe' = [pipe EXCEPT ![g] = [readopen |-> TRUE, writeopen |-> TRUE]]
        /\ \/ \E fd0 \in FreeFd(p), fd1 \in FreeFd(p) :
                /\ fd0 < fd1
                /\ ofile' = [ofile EXCEPT ![p][fd0] = rf, ![p][fd1] = wf]
                /\ UNCHANGED <<pc, closing>>
           \/ /\ closing' = [closing EXCEPT ![p] = <<rf, wf>>]
              /\ Goto(p, "close")
              /\ UNCHANGED ofile
  BY DEF sys_pipe, FreeFiles
<1>3. PICK s \in StructFile, t \in StructFile :
        /\ s = End(g, FALSE) /\ t = End(g, TRUE) /\ s # NONE /\ t # NONE
        /\ s.ref = 1 /\ s.type = "FD_PIPE" /\ s.page = g /\ s.writable = FALSE
        /\ t.ref = 1 /\ t.type = "FD_PIPE" /\ t.page = g /\ t.writable = TRUE
  <2>1. End(g, FALSE) \in StructFile /\ End(g, TRUE) \in StructFile
    BY DEF End, StructFile
  <2>. QED
    BY <2>1, FileAssumption DEF End
<1>4. PICK o \in StructPipe : /\ o = [readopen |-> TRUE, writeopen |-> TRUE] /\ o # NONE
                              /\ o.readopen /\ o.writeopen
  <2>1. [readopen |-> TRUE, writeopen |-> TRUE] \in StructPipe
    BY DEF StructPipe
  <2>. QED
    BY <2>1, FileAssumption
<1>5. /\ file' \in [File -> StructFile \union {NONE}]
      /\ file'[rf] = s /\ file'[wf] = t
      /\ \A h \in File : h # rf /\ h # wf => file'[h] = file[h]
  BY <1>2, <1>3 DEF FileTypes
<1>6. /\ pipe' \in [Page -> StructPipe \union {NONE}]
      /\ pipe'[g] = o /\ \A x \in Page : x # g => pipe'[x] = pipe[x]
  BY <1>2, <1>4 DEF FileTypes
<1>7. PICK N \in SUBSET File : N = {rf, wf}
  OBVIOUS
<1>8. ASSUME \A h \in File : Refs(h)' = IF h \in {wf, rf} THEN Refs(h) + 1 ELSE Refs(h),
             \A q \in Proc : q # p => closing'[q] = closing[q] /\ pc'[q] = pc[q],
             pc'[p] \in {"user", "close", "panic"}
      PROVE  Counted' /\ OneCloser' /\ Ends' /\ Inodes'
  <2>1. /\ \A h \in N : file[h] = NONE /\ file'[h] # NONE /\ file'[h].ref = 1
        /\ \A h \in File : h \notin N => file'[h] = file[h] /\ Refs(h)' = Refs(h)
        /\ \A h \in N : Refs(h)' = Refs(h) + 1
    BY <1>2, <1>3, <1>5, <1>7, <1>8
  <2>2. /\ Counted' /\ OneCloser'
        /\ \A h \in N : Holds(h)' /\ ~Holds(h)
        /\ \A h \in File : h \notin N => (Holds(h)' <=> Holds(h))
    BY <1>1, <1>8, <2>1, NewFiles
  <2>3. Inodes'
    <3>1. \A h \in N : file'[h].type # "FD_INODE"
      BY <1>3, <1>5, <1>7
    <3>. QED
      BY <1>1, <2>1, <2>2, <3>1, NoInodes
  <2>4. HasPage'
    <3>1. g # NONE
      BY FileAssumption
    <3>. QED
      BY <1>3, <1>5, <3>1 DEF Ends, HasPage
  <2>5. \A h \in File, w \in BOOLEAN : ~IsEnd(h, g, w)
    BY <1>2 DEF Ends, EndIsOpen
  <2>6. ASSUME NEW h \in File, NEW x \in Page, NEW w \in BOOLEAN
        PROVE  IsEnd(h, x, w)' <=> \/ IsEnd(h, x, w) /\ x # g
                                   \/ h = rf /\ x = g /\ w = FALSE
                                   \/ h = wf /\ x = g /\ w = TRUE
    <3>1. CASE h = rf
      <4>1. Holds(h)' /\ ~Holds(h) /\ file'[h] = s
        BY <1>5, <1>7, <2>2, <3>1
      <4>. QED
        BY <1>2, <1>3, <3>1, <4>1 DEF IsEnd
    <3>2. CASE h = wf
      <4>1. Holds(h)' /\ ~Holds(h) /\ file'[h] = t
        BY <1>5, <1>7, <2>2, <3>2
      <4>. QED
        BY <1>2, <1>3, <3>2, <4>1 DEF IsEnd
    <3>3. CASE h # rf /\ h # wf
      <4>1. (Holds(h)' <=> Holds(h)) /\ file'[h] = file[h]
        BY <1>5, <1>7, <2>2, <3>3
      <4>2. IsEnd(h, x, w)' <=> IsEnd(h, x, w)
        BY <4>1 DEF IsEnd
      <4>3. x = g => ~IsEnd(h, x, w)
        BY <2>5
      <4>. QED
        BY <3>3, <4>2, <4>3
    <3>. QED
      BY <3>1, <3>2, <3>3
  <2>7. EndIsOpen'
    <3>1. ASSUME NEW x \in Page, NEW h \in File
          PROVE  /\ IsEnd(h, x, TRUE)' => pipe'[x] # NONE /\ pipe'[x].writeopen
                 /\ IsEnd(h, x, FALSE)' => pipe'[x] # NONE /\ pipe'[x].readopen
      <4>1. CASE x = g
        BY <1>4, <1>6, <4>1
      <4>2. CASE x # g
        <5>1. pipe'[x] = pipe[x] /\ (IsEnd(h, x, TRUE)' => IsEnd(h, x, TRUE))
              /\ (IsEnd(h, x, FALSE)' => IsEnd(h, x, FALSE))
          BY <1>6, <2>6, <4>2
        <5>. QED
          BY <5>1 DEF Ends, EndIsOpen
      <4>. QED
        BY <4>1, <4>2
    <3>. QED
      BY <3>1 DEF EndIsOpen
  <2>8. OneFilePerEnd'
    <3>1. ASSUME NEW x \in Page, NEW w \in BOOLEAN, NEW h \in File, NEW k \in File,
                 IsEnd(h, x, w)', IsEnd(k, x, w)'
          PROVE  h = k
      <4>1. CASE x = g
        BY <2>6, <3>1, <4>1
      <4>2. CASE x # g
        <5>1. IsEnd(h, x, w) /\ IsEnd(k, x, w)
          BY <2>6, <3>1, <4>2
        <5>. QED
          BY <5>1 DEF Ends, OneFilePerEnd
      <4>. QED
        BY <4>1, <4>2
    <3>. QED
      BY <3>1 DEF OneFilePerEnd
  <2>9. OpenHasEnd'
    <3>1. ASSUME NEW x \in Page, pipe'[x] # NONE
          PROVE  /\ pipe'[x].readopen \/ pipe'[x].writeopen
                 /\ pipe'[x].readopen => \E h \in File : IsEnd(h, x, FALSE)'
                 /\ pipe'[x].writeopen => \E h \in File : IsEnd(h, x, TRUE)'
      <4>1. CASE x = g
        <5>1. IsEnd(rf, x, FALSE)' /\ IsEnd(wf, x, TRUE)'
          BY <2>6, <4>1
        <5>. QED
          BY <1>4, <1>6, <4>1, <5>1
      <4>2. CASE x # g
        <5>1. pipe'[x] = pipe[x] /\ pipe[x] # NONE
          BY <1>6, <3>1, <4>2
        <5>2. \A h \in File : /\ IsEnd(h, x, TRUE) => IsEnd(h, x, TRUE)'
                              /\ IsEnd(h, x, FALSE) => IsEnd(h, x, FALSE)'
          BY <2>6, <4>2
        <5>3. /\ pipe[x].readopen \/ pipe[x].writeopen
              /\ pipe[x].readopen => \E h \in File : IsEnd(h, x, FALSE)
              /\ pipe[x].writeopen => \E h \in File : IsEnd(h, x, TRUE)
          BY <5>1 DEF Ends, OpenHasEnd
        <5>. QED
          BY <5>1, <5>2, <5>3
      <4>. QED
        BY <4>1, <4>2
    <3>. QED
      BY <3>1 DEF OpenHasEnd
  <2>. QED
    BY <2>2, <2>3, <2>4, <2>7, <2>8, <2>9 DEF Ends
<1>9. ASSUME NEW fd0 \in FreeFd(p), NEW fd1 \in FreeFd(p), fd0 < fd1,
             ofile' = [ofile EXCEPT ![p][fd0] = rf, ![p][fd1] = wf],
             pc' = pc, closing' = closing
      PROVE  FileInv'
  <2>1. /\ fd0 \in Fd /\ fd1 \in Fd /\ fd0 # fd1
        /\ ofile[p][fd0] = NONE /\ ofile[p][fd1] = NONE
    <3>1. fd0 \in Fd /\ fd1 \in Fd /\ ofile[p][fd0] = NONE /\ ofile[p][fd1] = NONE
      BY DEF FreeFd
    <3>2. fd0 \in Nat
      BY <3>1, FileSizes
    <3>. QED
      BY <1>9, <3>1, <3>2
  <2>2. /\ ofile' \in [Proc -> [Fd -> File \union {NONE}]]
        /\ \A r \in Proc : r # p => ofile'[r] = ofile[r]
        /\ \A k \in Fd : ofile'[p][k] = IF k = fd1 THEN wf ELSE IF k = fd0 THEN rf ELSE ofile[p][k]
    BY <1>9, <2>1 DEF FileTypes
  <2>3. FileTypes'
    BY <1>1, <1>5, <1>6, <1>9, <2>2 DEF FileTypes
  <2>4. /\ Len(closing[p]) = 0 /\ fd0 \in Slot /\ fd1 \in Slot
        /\ HeldBy(ofile[p], closing[p], pc[p], fd0) = NONE
        /\ HeldBy(ofile[p], closing[p], pc[p], fd1) = NONE
    BY <1>1, <2>1, UserRow
  <2>5. \A q \in Proc : q # p => ofile'[q] = ofile[q] /\ closing'[q] = closing[q] /\ pc'[q] = pc[q]
    BY <1>9, <2>2
  <2>6. Loops' /\ Using' /\ Forks'
    <3>1. pc'[p] \in {"user", "panic"} /\ Len(closing'[p]) = 0
      BY <1>1, <1>9, <2>4
    <3>. QED
      BY <1>1, <2>5, <3>1, UserLoops
  <2>7. /\ HeldBy(ofile'[p], closing'[p], pc'[p], fd0) = rf
        /\ HeldBy(ofile'[p], closing'[p], pc'[p], fd1) = wf
    <3>1. ofile'[p][fd0] = rf /\ ofile'[p][fd1] = wf
      BY <2>1, <2>2
    <3>. QED
      BY <2>1, <3>1, FdHolds
  <2>8. \A k \in Slot : k # fd1 /\ k # fd0 =>
          HeldBy(ofile'[p], closing'[p], pc'[p], k) = HeldBy(ofile[p], closing[p], pc[p], k)
    <3>1. \A k \in Fd : k # fd1 /\ k # fd0 => ofile'[p][k] = ofile[p][k]
      BY <2>2
    <3>2. \A k \in Slot : k # fd1 /\ k # fd0 =>
            HeldBy(ofile'[p], closing[p], pc[p], k) = HeldBy(ofile[p], closing[p], pc[p], k)
      BY <3>1, RowOther
    <3>. QED
      BY <1>9, <3>2
  <2>9. \A h \in File : Refs(h)' = IF h \in {wf, rf} THEN Refs(h) + 1 ELSE Refs(h)
    BY <1>2, <2>1, <2>4, <2>5, <2>7, <2>8, TwoPlaces
  <2>10. Counted' /\ OneCloser' /\ Ends' /\ Inodes'
    BY <1>1, <1>8, <1>9, <2>9
  <2>. QED
    BY <2>3, <2>6, <2>10
<1>10. ASSUME closing' = [closing EXCEPT ![p] = <<rf, wf>>], pc' = [pc EXCEPT ![p] = "close"],
              ofile' = ofile
       PROVE  FileInv'
  <2>1. PICK cl \in Seq(File) : cl = <<rf, wf>> /\ Len(cl) = 2 /\ cl[1] = rf /\ cl[2] = wf
    BY TwoFiles
  <2>2. /\ closing' \in [Proc -> Seq(File)] /\ pc' \in [Proc -> FilePcs]
        /\ closing'[p] = cl /\ pc'[p] = "close"
        /\ \A q \in Proc : q # p => closing'[q] = closing[q] /\ pc'[q] = pc[q]
    BY <1>10, <2>1 DEF FileTypes, FilePcs
  <2>3. FileTypes'
    BY <1>1, <1>5, <1>6, <1>10, <2>2 DEF FileTypes
  <2>4. Loops' /\ Using' /\ Forks'
    <3>1. \A q \in Proc : q # p => ofile'[q] = ofile[q] /\ closing'[q] = closing[q] /\ pc'[q] = pc[q]
      BY <1>10, <2>2
    <3>2. pc'[p] = "close" /\ Len(closing'[p]) \in {1, 2}
      BY <2>1, <2>2, Zenon
    <3>. QED
      BY <1>1, <3>1, <3>2, UserLoops
  <2>5. \A h \in File : Refs(h)' = IF h \in {wf, rf} THEN Refs(h) + 1 ELSE Refs(h)
    <3>1. closing'[p] = cl /\ pc'[p] = "close"
          /\ \A q \in Proc : q # p => closing'[q] = closing[q] /\ pc'[q] = pc[q]
      BY <2>2
    <3>. QED
      BY <1>1, <1>2, <1>10, <2>1, <3>1, TwoCloses
  <2>6. Counted' /\ OneCloser' /\ Ends' /\ Inodes'
    <3>1. /\ \A q \in Proc : q # p => closing'[q] = closing[q] /\ pc'[q] = pc[q]
          /\ pc'[p] \in {"user", "close", "panic"}
      BY <2>2
    <3>. QED
      BY <1>8, <2>5, <3>1
  <2>. QED
    BY <2>3, <2>4, <2>6
<1>. QED
  BY <1>2, <1>9, <1>10 DEF Goto

-----------------------------------------------------------------------------
(* The theorems *)

\* Every step keeps the invariant.
LEMMA FileStep == FileInv /\ [Next]_vars => FileInv'
<1>. SUFFICES ASSUME FileInv, [Next]_vars PROVE FileInv'
  OBVIOUS
<1>1. CASE UNCHANGED vars
  <2>1. \A q \in Proc : \A k \in Slot :
          HeldBy(ofile'[q], closing'[q], pc'[q], k) = HeldBy(ofile[q], closing[q], pc[q], k)
    BY <1>1 DEF vars
  <2>2. \A f \in File : Refs(f)' = Refs(f)
    BY <2>1, RefsKept
  <2>3. Counted'
    BY <1>1, <2>2 DEF FileInv, Counted, Panicked, vars
  <2>4. FileTypes' /\ Loops' /\ Using' /\ Forks'
    BY <1>1 DEF FileInv, FileTypes, Loops, Using, Forks, vars
  <2>5. OneCloser'
    BY <1>1 DEF FileInv, OneCloser, Finishing, Last, vars
  <2>6. Ends' /\ Inodes'
    BY <1>1, ObjectsKept DEF FileInv, SameObjects, vars
  <2>. QED
    BY <2>3, <2>4, <2>5, <2>6 DEF FileInv
<1>2. CASE Next
  <2>1. PICK p \in Proc :
          \/ FileallocNull(p) \/ sys_open(p) \/ sys_dup(p) \/ sys_close(p)
          \/ sys_pipe(p) \/ PipeallocFails(p)
          \/ fileclose(p) \/ FilecloseLast(p) \/ FilecloseObject(p) \/ FilecloseFree(p)
          \/ Use(p) \/ Used(p)
          \/ fork(p) \/ ForkDup(p) \/ exit(p) \/ ExitClose(p)
    BY <1>2 DEF Next
  <2>. QED
    BY <2>1, StepNull, StepUse, StepForkExit, StepDup, StepForkDup, StepClose, StepFileclose,
       StepCloseLast, StepCloseObject, StepCloseFree, StepOpen, StepPipe, StepPipeallocFails
<1>. QED
  BY <1>1, <1>2

\* In every execution of file.c and its callers references are where FileInv
\* says: each one is counted, one process finishes each close, and the pipes
\* and inodes behind files are theirs.
THEOREM FileInvariant == Spec => []FileInv
<1>1. Init => FileInv
  BY FileInit
<1>2. FileInv /\ [Next]_vars => FileInv'
  BY FileStep
<1>. QED
  BY <1>1, <1>2, PTL DEF Spec

\* f->ref is the number of references through any interleaving of dup, fork,
\* close and exit, a file without references is being freed by exactly one
\* process, and pipe ends and inodes are held exactly by files.
THEOREM RefsMatchHolds == Spec => []RefsMatch
  BY FileInvariant, InvMatches, PTL

\* A process in fileread, filewrite or filestat works on a file that stays
\* allocated and whose pipe is there.
THEOREM UseIsSafeHolds == Spec => []UseIsSafe
<1>1. FileInv => UseIsSafe
  <2>. SUFFICES ASSUME FileInv, NEW p \in Proc, pc[p] = "using"
                PROVE  /\ file[using[p]] # NONE /\ file[using[p]].ref > 0
                       /\ file[using[p]].type = "FD_PIPE" => pipe[file[using[p]].page] # NONE
    BY DEF UseIsSafe
  <2>. USE DEF FileInv
  <2>1. PICK f \in File, fd \in Fd : f = using[p] /\ ofile[p][fd] = f
    BY DEF Using
  <2>2. <<p, fd>> \in Place /\ Held[<<p, fd>>] = f
    <3>1. fd \in Slot
      BY FileSizes
    <3>2. HeldBy(ofile[p], closing[p], pc[p], fd) = ofile[p][fd]
      BY FdHolds
    <3>. QED
      BY <2>1, <3>1, <3>2, HeldRows
  <2>3. file[f] # NONE /\ file[f] \in StructFile /\ file[f].ref > 0
    BY <2>2, HolderCounts
  <2>4. Holds(f)
    <3>1. \A q \in Proc : pc[q] = "free" => file[Last(q)].ref = 0
      BY DEF OneCloser, Finishing
    <3>2. file[f].ref # 0
      BY <2>3
    <3>. QED
      BY <2>3, <3>1, <3>2 DEF Holds
  <2>5. file[f].type = "FD_PIPE" => pipe[file[f].page] # NONE
    <3>1. SUFFICES ASSUME file[f].type = "FD_PIPE" PROVE pipe[file[f].page] # NONE
      OBVIOUS
    <3>2. PICK g \in Page, w \in BOOLEAN : g = file[f].page /\ w = file[f].writable
      BY <2>3, <3>1 DEF Ends, HasPage, StructFile
    <3>3. IsEnd(f, g, w)
      BY <2>4, <3>2 DEF IsEnd
    <3>. QED
      BY <3>2, <3>3 DEF Ends, EndIsOpen
  <2>. QED
    BY <2>1, <2>3, <2>5
<1>. QED
  BY <1>1, FileInvariant, PTL

=============================================================================
