----------------------------- MODULE FileSteps ------------------------------
(***************************************************************************)
(* The inductive invariant of open files (File), what it says of the       *)
(* counts of the model, and the steps of use, dup, fork, close and exit    *)
(* that keep it.                                                           *)
(***************************************************************************)
EXTENDS File, FiniteSetTheorems, TLAPS

\* Leaves are tried with Zenon first, which is quick to give up.
USE ZenonT(3), SMTT(30)

-----------------------------------------------------------------------------
(* The inductive invariant *)

Panicked == \E p \in Proc : pc[p] = "panic"

FilePcs == {"user", "unused", "used", "using", "fork", "exit", "close", "put", "free", "panic"}

FileTypes ==
  /\ file \in [File -> StructFile \union {NONE}]
  /\ pipe \in [Page -> StructPipe \union {NONE}]
  /\ iref \in Nat
  /\ ofile \in [Proc -> [Fd -> File \union {NONE}]]
  /\ pc \in [Proc -> FilePcs]
  /\ child \in [Proc -> Proc \union {NONE}]
  /\ next \in [Proc -> 0..NOFILE]
  /\ closing \in [Proc -> Seq(File)]
  /\ using \in [Proc -> File \union {NONE}]

\* A process closes files exactly while it is in fileclose, one or two; fd of
\* exit's loop has passed the descriptors that are closed, and a free slot has
\* no descriptors left.
Loops ==
  \A p \in Proc :
    /\ pc[p] \in {"close", "put", "free"} <=> Len(closing[p]) > 0
    /\ Len(closing[p]) <= 2
    /\ next[p] > 0 => pc[p] \in {"exit", "close", "put", "free", "fork"}
    /\ pc[p] \in {"exit", "close", "put", "free"} => \A fd \in Fd : fd < next[p] => ofile[p][fd] = NONE
    /\ pc[p] = "unused" => \A fd \in Fd : ofile[p][fd] = NONE

\* A process reads, writes or stats the file of one of its descriptors.
Using == \A p \in Proc : pc[p] = "using" => using[p] \in File /\ \E fd \in Fd : ofile[p][fd] = using[p]

\* fork has np to itself until it is done; fd has not reached the descriptors
\* that np lacks.
Forks ==
  /\ \A p \in Proc : pc[p] = "fork" =>
       /\ child[p] \in Proc /\ pc[child[p]] = "used"
       /\ \A fd \in Fd : fd >= next[p] => ofile[child[p]][fd] = NONE
  /\ \A p, q \in Proc : pc[p] = "fork" /\ pc[q] = "fork" /\ child[p] = child[q] => p = q

\* f->ref counts the references; only the file that pipealloc leaves behind in
\* a panic has none.
Counted ==
  \A f \in File :
    /\ file[f] = NONE => Refs(f) = 0
    /\ file[f] # NONE =>
         \/ file[f].ref = Refs(f)
         \/ Panicked /\ Refs(f) = 0 /\ file[f].ref = 1 /\ file[f].type = "FD_NONE"

\* The file whose last reference is gone is freed by the process that gave it
\* up, and by no other.
Finishing(p) == pc[p] \in {"put", "free"}
OneCloser ==
  /\ \A p \in Proc : Finishing(p) => file[Last(p)] # NONE /\ file[Last(p)].ref = 0
  /\ \A p, q \in Proc : Finishing(p) /\ Finishing(q) /\ Last(p) = Last(q) => p = q
  /\ \A f \in File : file[f] # NONE /\ file[f].ref = 0 => \E p \in Proc : Finishing(p) /\ Last(p) = f

\* An end of a pipe is open while the one file for it has not given it up, and
\* the page is there while an end is open.
IsEnd(f, g, w) == Holds(f) /\ file[f].page = g /\ file[f].writable = w
HasPage == \A f \in File : file[f] # NONE => (file[f].page # NONE <=> file[f].type = "FD_PIPE")
EndIsOpen == \A g \in Page, f \in File :
  /\ IsEnd(f, g, TRUE) => pipe[g] # NONE /\ pipe[g].writeopen
  /\ IsEnd(f, g, FALSE) => pipe[g] # NONE /\ pipe[g].readopen
OneFilePerEnd ==
  \A g \in Page, w \in BOOLEAN, f, h \in File : IsEnd(f, g, w) /\ IsEnd(h, g, w) => f = h
OpenHasEnd == \A g \in Page : pipe[g] # NONE =>
  /\ pipe[g].readopen \/ pipe[g].writeopen
  /\ pipe[g].readopen => \E f \in File : IsEnd(f, g, FALSE)
  /\ pipe[g].writeopen => \E f \in File : IsEnd(f, g, TRUE)
Ends == HasPage /\ EndIsOpen /\ OneFilePerEnd /\ OpenHasEnd

\* Every reference to an inode belongs to a file.
InodeFiles == {f \in File : Holds(f) /\ file[f].type = "FD_INODE"}
Inodes == iref = Cardinality(InodeFiles)

FileInv ==
  FileTypes /\ Loops /\ Using /\ Forks /\ Counted /\ OneCloser /\ Ends /\ Inodes

-----------------------------------------------------------------------------
(* Counting references *)

\* NOFILE, and the numbers of places, are numbers.
LEMMA FileSizes ==
  /\ NOFILE \in Nat /\ NOFILE > 0 /\ Fd \subseteq Nat
  /\ Fd \subseteq Slot /\ NOFILE \in Slot /\ NOFILE + 1 \in Slot
  /\ NOFILE \notin Fd /\ NOFILE + 1 \notin Fd /\ NOFILE # NOFILE + 1
  /\ \A k \in Slot : k < NOFILE <=> k \in Fd
  /\ \A k \in Slot : k < NOFILE \/ k = NOFILE \/ k = NOFILE + 1
  BY FileAssumption DEF Fd, Slot

\* There are finitely many places.
LEMMA PlacesFinite == IsFiniteSet(Place)
<1>1. IsFiniteSet(0..(NOFILE + 1))
  <2>1. NOFILE + 1 \in Int /\ 0 \in Int
    BY FileAssumption
  <2>. QED
    BY <2>1, FS_Interval
<1>2. \A S : IsFiniteSet(S) => IsFiniteSet(Proc \X S)
  BY FileAssumption, FS_Product
<1>. QED
  BY <1>1, <1>2, Zenon DEF Place, Slot

\* The number of places of S that hold f; Refs(f) is Count(Held, f).
Count(S, f) == Cardinality({e \in Place : S[e] = f})

\* A count is a number, and 0 exactly if f is nowhere.
LEMMA CountIsNat ==
  ASSUME NEW S, NEW f
  PROVE  Count(S, f) \in Nat /\ (Count(S, f) = 0 <=> \A e \in Place : S[e] # f)
<1>. DEFINE A == {e \in Place : S[e] = f}
<1>1. IsFiniteSet(A)
  BY PlacesFinite, FS_Subset
<1>2. A = {} <=> \A e \in Place : S[e] # f
  OBVIOUS
<1>. HIDE DEF A
<1>3. Cardinality(A) \in Nat /\ (Cardinality(A) = 0 <=> A = {})
  BY <1>1, FS_CardinalityType, FS_EmptySet
<1>. QED
  BY <1>2, <1>3 DEF Count, A

\* A place gets f, or gives it up.
LEMMA CountGained ==
  ASSUME NEW S, NEW T, NEW d \in Place, \A e \in Place : e # d => T[e] = S[e],
         NEW f \in File, S[d] = NONE, T[d] = f, NEW h \in File
  PROVE  Count(T, h) = IF h = f THEN Count(S, h) + 1 ELSE Count(S, h)
<1>. DEFINE A == {e \in Place : S[e] = h}
            B == {e \in Place : T[e] = h}
<1>1. f # NONE /\ h # NONE
  BY FileAssumption
<1>2. IsFiniteSet(A)
  BY PlacesFinite, FS_Subset
<1>3. IF h = f THEN d \notin A /\ B = A \union {d} ELSE B = A
  BY <1>1
<1>4. Count(S, h) = Cardinality(A) /\ Count(T, h) = Cardinality(B)
  BY DEF Count
<1>. HIDE DEF A, B
<1>5. d \notin A => Cardinality(A \union {d}) = Cardinality(A) + 1
  BY <1>2, FS_AddElement
<1>. QED
  BY <1>3, <1>4, <1>5

\* See CountGained.
LEMMA CountLost ==
  ASSUME NEW S, NEW T, NEW d \in Place, \A e \in Place : e # d => T[e] = S[e],
         NEW f \in File, S[d] = f, T[d] = NONE, NEW h \in File
  PROVE  Count(T, h) = IF h = f THEN Count(S, h) - 1 ELSE Count(S, h)
<1>. DEFINE A == {e \in Place : S[e] = h}
            B == {e \in Place : T[e] = h}
<1>1. f # NONE /\ h # NONE
  BY FileAssumption
<1>2. IsFiniteSet(A)
  BY PlacesFinite, FS_Subset
<1>3. IF h = f THEN d \in A /\ B = A \ {d} ELSE B = A
  BY <1>1
<1>4. Count(S, h) = Cardinality(A) /\ Count(T, h) = Cardinality(B)
  BY DEF Count
<1>. HIDE DEF A, B
<1>5. d \in A => Cardinality(A \ {d}) = Cardinality(A) - 1
  BY <1>2, FS_RemoveElement
<1>. QED
  BY <1>3, <1>4, <1>5

\* What each place of a process holds.
LEMMA HeldIs ==
  ASSUME NEW fds, NEW cl, Len(cl) \in Nat, NEW w
  PROVE  /\ \A n \in Fd : HeldBy(fds, cl, w, n) = fds[n]
         /\ Len(cl) = 0 =>
              HeldBy(fds, cl, w, NOFILE) = NONE /\ HeldBy(fds, cl, w, NOFILE + 1) = NONE
         /\ Len(cl) = 1 =>
              /\ HeldBy(fds, cl, w, NOFILE) = IF w = "close" THEN cl[1] ELSE NONE
              /\ HeldBy(fds, cl, w, NOFILE + 1) = NONE
         /\ Len(cl) = 2 =>
              /\ HeldBy(fds, cl, w, NOFILE) = cl[2]
              /\ HeldBy(fds, cl, w, NOFILE + 1) = IF w = "close" THEN cl[1] ELSE NONE
<1>1. NOFILE \in Nat
  BY FileSizes
<1>2. \A n \in Fd : HeldBy(fds, cl, w, n) = fds[n]
  BY <1>1 DEF HeldBy, Fd
<1>3. ASSUME Len(cl) = 0
      PROVE  HeldBy(fds, cl, w, NOFILE) = NONE /\ HeldBy(fds, cl, w, NOFILE + 1) = NONE
  BY <1>1, <1>3 DEF HeldBy
<1>4. ASSUME Len(cl) = 1
      PROVE  /\ HeldBy(fds, cl, w, NOFILE) = IF w = "close" THEN cl[1] ELSE NONE
             /\ HeldBy(fds, cl, w, NOFILE + 1) = NONE
  BY <1>1, <1>4 DEF HeldBy
<1>5. ASSUME Len(cl) = 2
      PROVE  /\ HeldBy(fds, cl, w, NOFILE) = cl[2]
             /\ HeldBy(fds, cl, w, NOFILE + 1) = IF w = "close" THEN cl[1] ELSE NONE
  BY <1>1, <1>5 DEF HeldBy
<1>. QED
  BY <1>2, <1>3, <1>4, <1>5

\* See HeldIs.
LEMMA HeldOne ==
  ASSUME NEW fds, NEW cl, Len(cl) = 1, NEW w
  PROVE  /\ HeldBy(fds, cl, w, NOFILE) = IF w = "close" THEN cl[1] ELSE NONE
         /\ HeldBy(fds, cl, w, NOFILE + 1) = NONE
  BY FileSizes DEF HeldBy

\* See HeldIs.
LEMMA HeldTwo ==
  ASSUME NEW fds, NEW cl, Len(cl) = 2, NEW w
  PROVE  /\ HeldBy(fds, cl, w, NOFILE) = cl[2]
         /\ HeldBy(fds, cl, w, NOFILE + 1) = IF w = "close" THEN cl[1] ELSE NONE
  BY FileSizes DEF HeldBy

\* A descriptor holds its file; the closes do not depend on descriptors.
LEMMA FdHolds ==
  ASSUME NEW fds, NEW cl, NEW w, NEW n \in Fd
  PROVE  HeldBy(fds, cl, w, n) = fds[n]
<1>1. n < NOFILE
  BY FileSizes
<1>. QED
  BY <1>1 DEF HeldBy

\* See FdHolds.
LEMMA CloseHolds ==
  ASSUME NEW fds, NEW fds2, NEW cl, NEW w, NEW n \in Slot, n \notin Fd
  PROVE  HeldBy(fds, cl, w, n) = HeldBy(fds2, cl, w, n)
<1>1. n \in Nat /\ NOFILE \in Nat /\ ~(n < NOFILE) /\ n >= NOFILE
  BY FileSizes DEF Slot
<1>. QED
  BY <1>1 DEF HeldBy

\* One descriptor changes.
LEMMA RowSetFd ==
  ASSUME NEW fds, NEW fds2, NEW cl, NEW w, NEW fd \in Fd, \A k \in Fd : k # fd => fds2[k] = fds[k]
  PROVE  /\ HeldBy(fds, cl, w, fd) = fds[fd] /\ HeldBy(fds2, cl, w, fd) = fds2[fd]
         /\ \A k \in Slot : k # fd => HeldBy(fds2, cl, w, k) = HeldBy(fds, cl, w, k)
<1>1. ASSUME NEW k \in Slot, k # fd PROVE HeldBy(fds2, cl, w, k) = HeldBy(fds, cl, w, k)
  <2>1. CASE k \in Fd
    BY <1>1, <2>1, FdHolds
  <2>2. CASE k \notin Fd
    BY <2>2, CloseHolds
  <2>. QED
    BY <2>1, <2>2
<1>. QED
  BY <1>1, FdHolds

\* Held, place by place, before and after a step.
LEMMA HeldRows ==
  ASSUME NEW q \in Proc, NEW n \in Slot
  PROVE  /\ <<q, n>> \in Place
         /\ Held[<<q, n>>] = HeldBy(ofile[q], closing[q], pc[q], n)
         /\ Held'[<<q, n>>] = HeldBy(ofile'[q], closing'[q], pc'[q], n)
<1>1. <<q, n>> \in Place /\ <<q, n>>[1] = q /\ <<q, n>>[2] = n
  BY DEF Place
<1>. QED
  BY <1>1 DEF Held

\* A step in which process p changes what it holds at place n only.
LEMMA OnePlace ==
  ASSUME NEW p \in Proc, NEW n \in Slot,
         \A q \in Proc : q # p => /\ ofile'[q] = ofile[q] /\ closing'[q] = closing[q]
                                  /\ pc'[q] = pc[q],
         \A k \in Slot : k # n =>
           HeldBy(ofile'[p], closing'[p], pc'[p], k) = HeldBy(ofile[p], closing[p], pc[p], k)
  PROVE  \A e \in Place : e # <<p, n>> => Held'[e] = Held[e]
<1>1. \A q \in Proc, k \in Slot : q # p \/ k # n => Held'[<<q, k>>] = Held[<<q, k>>]
  BY HeldRows
<1>2. \A e \in Place : e = <<e[1], e[2]>> /\ e[1] \in Proc /\ e[2] \in Slot
  BY DEF Place
<1>. QED
  BY <1>1, <1>2

\* A process that closes nothing holds its descriptors, wherever it is.
LEMMA SameRow ==
  ASSUME NEW fds, NEW cl, Len(cl) \in Nat, NEW w, NEW v,
         Len(cl) = 0 \/ (w = "close" <=> v = "close")
  PROVE  \A k \in Slot : HeldBy(fds, cl, w, k) = HeldBy(fds, cl, v, k)
<1>1. \A k \in Slot : k \in Nat
  BY FileSizes DEF Slot
<1>2. CASE Len(cl) = 0
  <2>1. /\ \A k \in Fd : HeldBy(fds, cl, w, k) = fds[k]
        /\ HeldBy(fds, cl, w, NOFILE) = NONE /\ HeldBy(fds, cl, w, NOFILE + 1) = NONE
    BY <1>2, HeldIs
  <2>2. /\ \A k \in Fd : HeldBy(fds, cl, v, k) = fds[k]
        /\ HeldBy(fds, cl, v, NOFILE) = NONE /\ HeldBy(fds, cl, v, NOFILE + 1) = NONE
    BY <1>2, HeldIs
  <2>. QED
    BY <2>1, <2>2, FileSizes
<1>3. CASE w = "close" <=> v = "close"
  BY <1>3 DEF HeldBy
<1>. QED
  BY <1>2, <1>3

\* The number of references is a count.
LEMMA RefsAreCounts ==
  ASSUME NEW f
  PROVE  Refs(f) = Count(Held, f) /\ Refs(f)' = Count(Held', f)
  BY DEF Refs, Count

\* A step that leaves every place as it is.
LEMMA RefsKept ==
  ASSUME \A q \in Proc : \A k \in Slot :
           HeldBy(ofile'[q], closing'[q], pc'[q], k) = HeldBy(ofile[q], closing[q], pc[q], k)
  PROVE  \A f \in File : Refs(f)' = Refs(f)
<1>1. \A e \in Place : e = <<e[1], e[2]>> /\ e[1] \in Proc /\ e[2] \in Slot
  BY DEF Place
<1>2. \A e \in Place : Held'[e] = Held[e]
  BY <1>1, HeldRows
<1>3. ASSUME NEW f \in File PROVE {e \in Place : Held'[e] = f} = {e \in Place : Held[e] = f}
  BY <1>2
<1>. QED
  BY <1>3 DEF Refs

\* A file that is held has been allocated and counts the reference.
LEMMA HolderCounts ==
  ASSUME FileTypes, Counted, NEW e \in Place, NEW f \in File, Held[e] = f
  PROVE  file[f] # NONE /\ file[f] \in StructFile /\ file[f].ref = Refs(f) /\ file[f].ref > 0
<1>1. Refs(f) \in Nat /\ Refs(f) # 0
  BY CountIsNat, RefsAreCounts
<1>2. file[f] # NONE /\ file[f].ref = Refs(f)
  BY <1>1 DEF Counted
<1>. QED
  BY <1>1, <1>2 DEF FileTypes

\* Files keep their objects.
SameObjects ==
  \A f \in File :
    /\ file'[f] = NONE <=> file[f] = NONE
    /\ file[f] # NONE => /\ file'[f].type = file[f].type /\ file'[f].page = file[f].page
                         /\ file'[f].writable = file[f].writable

\* A step that changes counts at most, and in which no process gets to free a
\* file or is done with it.
LEMMA ObjectsKept ==
  ASSUME Ends, Inodes, SameObjects, UNCHANGED <<pipe, iref>>,
         \A q \in Proc : pc'[q] = "free" <=> pc[q] = "free",
         \A q \in Proc : pc[q] = "free" => closing'[q] = closing[q]
  PROVE  Ends' /\ Inodes'
<1>1. \A f \in File : Holds(f)' <=> Holds(f)
  BY DEF Holds, SameObjects, Last
<1>2. \A f \in File : \A g, w : IsEnd(f, g, w)' <=> IsEnd(f, g, w)
  BY <1>1 DEF IsEnd, SameObjects, Holds
<1>3. InodeFiles' = InodeFiles
  BY <1>1 DEF InodeFiles, SameObjects, Holds
<1>4. \A f \in File : file'[f] # NONE => (file'[f].page # NONE <=> file'[f].type = "FD_PIPE")
  BY DEF Ends, HasPage, SameObjects
<1>5. EndIsOpen'
  BY <1>2 DEF Ends, EndIsOpen
<1>6. OneFilePerEnd'
  BY <1>2 DEF Ends, OneFilePerEnd
<1>7. OpenHasEnd'
  BY <1>2 DEF Ends, OpenHasEnd
<1>. QED
  BY <1>3, <1>4, <1>5, <1>6, <1>7 DEF Inodes, Ends, HasPage

\* A step after which the same files are the same pipe ends.
LEMMA EndsKept ==
  ASSUME EndIsOpen, OneFilePerEnd, OpenHasEnd,
         \A g \in Page : pipe'[g] = pipe[g],
         \A f \in File, g \in Page, w \in BOOLEAN : IsEnd(f, g, w)' <=> IsEnd(f, g, w)
  PROVE  EndIsOpen' /\ OneFilePerEnd' /\ OpenHasEnd'
<1>1. EndIsOpen'
  BY DEF EndIsOpen
<1>3. OneFilePerEnd'
  BY DEF OneFilePerEnd
<1>4. OpenHasEnd'
  BY DEF OpenHasEnd
<1>. QED
  BY <1>1, <1>3, <1>4

\* A step that neither gives up a last reference nor frees a file.
LEMMA ClosersKept ==
  ASSUME OneCloser,
         \A f \in File : (file'[f] # NONE /\ file'[f].ref = 0) <=> (file[f] # NONE /\ file[f].ref = 0),
         \A q \in Proc : /\ Finishing(q)' <=> Finishing(q)
                         /\ Finishing(q) => closing'[q] = closing[q] /\ Last(q) \in File
  PROVE  OneCloser'
<1>1. \A q \in Proc : Finishing(q) => Last(q)' = Last(q)
  BY DEF Last
<1>2. \A q \in Proc : Finishing(q)' => file'[Last(q)'] # NONE /\ file'[Last(q)'].ref = 0
  BY <1>1 DEF OneCloser
<1>3. \A q, r \in Proc : Finishing(q)' /\ Finishing(r)' /\ Last(q)' = Last(r)' => q = r
  BY <1>1 DEF OneCloser
<1>4. \A f \in File : file'[f] # NONE /\ file'[f].ref = 0 => \E q \in Proc : Finishing(q)' /\ Last(q)' = f
  BY <1>1 DEF OneCloser
<1>. QED
  BY <1>2, <1>3, <1>4 DEF OneCloser

\* What a process is closing are files.
LEMMA LastIsFile ==
  ASSUME FileTypes, Loops, NEW p \in Proc, pc[p] \in {"close", "put", "free"}
  PROVE  /\ closing[p] \in Seq(File) /\ Len(closing[p]) \in {1, 2}
         /\ Last(p) = closing[p][1] /\ Last(p) \in File
<1>1. closing[p] \in Seq(File) /\ Len(closing[p]) \in Nat /\ Len(closing[p]) > 0 /\ Len(closing[p]) <= 2
  BY DEF FileTypes, Loops
<1>2. Len(closing[p]) \in {1, 2}
  <2>1. \A n \in Nat : n > 0 /\ n <= 2 => n \in {1, 2}
    OBVIOUS
  <2>. QED
    BY <1>1, <2>1
<1>3. Head(closing[p]) = closing[p][1] /\ closing[p][1] \in File
  BY <1>1
<1>. QED
  BY <1>1, <1>2, <1>3 DEF Last

\* One place gets a reference to f, gives one up, or hands it to another place;
\* or two places get references to different files.
LEMMA RefGained ==
  ASSUME NEW d \in Place, NEW f \in File,
         \A e \in Place : e # d => Held'[e] = Held[e], Held[d] = NONE, Held'[d] = f
  PROVE  \A h \in File : Refs(h)' = IF h = f THEN Refs(h) + 1 ELSE Refs(h)
<1>1. ASSUME NEW h \in File
      PROVE  Count(Held', h) = IF h = f THEN Count(Held, h) + 1 ELSE Count(Held, h)
  BY CountGained
<1>. QED
  BY <1>1, RefsAreCounts

\* See RefGained.
LEMMA RefLost ==
  ASSUME NEW d \in Place, NEW f \in File,
         \A e \in Place : e # d => Held'[e] = Held[e], Held[d] = f, Held'[d] = NONE
  PROVE  \A h \in File : Refs(h)' = IF h = f THEN Refs(h) - 1 ELSE Refs(h)
<1>1. ASSUME NEW h \in File
      PROVE  Count(Held', h) = IF h = f THEN Count(Held, h) - 1 ELSE Count(Held, h)
  BY CountLost
<1>. QED
  BY <1>1, RefsAreCounts

\* See RefGained.
LEMMA RefMoved ==
  ASSUME NEW d \in Place, NEW c \in Place, c # d, NEW f \in File,
         \A e \in Place : e # d /\ e # c => Held'[e] = Held[e],
         Held[d] = f, Held'[d] = NONE, Held[c] = NONE, Held'[c] = f
  PROVE  \A h \in File : Refs(h)' = Refs(h)
<1>. DEFINE T == [e \in Place |-> IF e = d THEN NONE ELSE Held[e]]
<1>1. NONE \notin File
  BY FileAssumption
<1>2. /\ \A e \in Place : e # d => T[e] = Held[e]
      /\ \A e \in Place : e # c => Held'[e] = T[e]
      /\ T[d] = NONE /\ T[c] = NONE
  OBVIOUS
<1>. HIDE DEF T
<1>3. \A h \in File : Count(T, h) = IF h = f THEN Count(Held, h) - 1 ELSE Count(Held, h)
  BY <1>2, CountLost
<1>4. \A h \in File : Count(Held', h) = IF h = f THEN Count(T, h) + 1 ELSE Count(T, h)
  BY <1>2, CountGained
<1>5. \A h \in File : Count(Held, h) \in Nat
  BY CountIsNat
<1>. QED
  BY <1>3, <1>4, <1>5, RefsAreCounts

\* See RefGained.
LEMMA TwoGained ==
  ASSUME NEW d \in Place, NEW c \in Place, c # d, NEW f \in File, NEW g \in File, f # g,
         \A e \in Place : e # d /\ e # c => Held'[e] = Held[e],
         Held[d] = NONE, Held'[d] = f, Held[c] = NONE, Held'[c] = g
  PROVE  \A h \in File : Refs(h)' = IF h \in {f, g} THEN Refs(h) + 1 ELSE Refs(h)
<1>. DEFINE T == [e \in Place |-> IF e = d THEN f ELSE Held[e]]
<1>1. NONE \notin File
  BY FileAssumption
<1>2. /\ \A e \in Place : e # d => T[e] = Held[e]
      /\ \A e \in Place : e # c => Held'[e] = T[e]
      /\ T[d] = f /\ T[c] = NONE
  OBVIOUS
<1>. HIDE DEF T
<1>3. \A h \in File : Count(T, h) = IF h = f THEN Count(Held, h) + 1 ELSE Count(Held, h)
  BY <1>2, CountGained
<1>4. \A h \in File : Count(Held', h) = IF h = g THEN Count(T, h) + 1 ELSE Count(T, h)
  BY <1>2, CountGained
<1>. QED
  BY <1>3, <1>4, RefsAreCounts

-----------------------------------------------------------------------------
(* Steps that hold no file more or less *)

\* Processes that close nothing go somewhere else.
LEMMA QuietStep ==
  ASSUME FileInv, UNCHANGED <<file, pipe, iref, ofile, closing>>, ~Panicked,
         \A q \in Proc : pc'[q] # pc[q] =>
           pc[q] \notin {"close", "put", "free"} /\ pc'[q] \notin {"close", "put", "free"}
  PROVE  Counted' /\ OneCloser' /\ Ends' /\ Inodes'
<1>1. \A q \in Proc : /\ closing[q] \in Seq(File) /\ Len(closing[q]) \in Nat
                      /\ pc[q] \notin {"close", "put", "free"} => Len(closing[q]) = 0
  BY DEF FileInv, FileTypes, Loops
<1>2. \A q \in Proc : \A k \in Slot :
        HeldBy(ofile'[q], closing'[q], pc'[q], k) = HeldBy(ofile[q], closing[q], pc[q], k)
  <2>1. SUFFICES ASSUME NEW q \in Proc
                 PROVE  \A k \in Slot : HeldBy(ofile[q], closing[q], pc'[q], k)
                                          = HeldBy(ofile[q], closing[q], pc[q], k)
    OBVIOUS
  <2>2. Len(closing[q]) = 0 \/ (pc'[q] = "close" <=> pc[q] = "close")
    BY <1>1
  <2>. QED
    BY <1>1, <2>2, SameRow
<1>3. \A f \in File : Refs(f)' = Refs(f)
  BY <1>2, RefsKept
<1>4. Counted'
  BY <1>3 DEF FileInv, Counted
<1>5. \A q \in Proc : /\ Finishing(q)' <=> Finishing(q)
                      /\ Finishing(q) => Last(q) \in File
                      /\ pc'[q] = "free" <=> pc[q] = "free"
  BY LastIsFile DEF Finishing, FileInv
<1>6. OneCloser'
  BY <1>5, ClosersKept DEF FileInv
<1>7. Ends' /\ Inodes'
  BY <1>5, ObjectsKept DEF FileInv, SameObjects
<1>. QED
  BY <1>4, <1>6, <1>7

\* fd of a process that is in no loop is 0.
LEMMA NextIsNat ==
  ASSUME FileTypes, Loops, NEW q \in Proc
  PROVE  /\ next[q] \in Nat /\ next[q] <= NOFILE
         /\ pc[q] \notin {"exit", "close", "put", "free", "fork"} => next[q] = 0
<1>1. NOFILE \in Nat /\ next[q] \in 0..NOFILE
  BY FileSizes DEF FileTypes
<1>2. next[q] > 0 => pc[q] \in {"exit", "close", "put", "free", "fork"}
  BY DEF Loops
<1>. QED
  BY <1>1, <1>2

\* filealloc finds no memory.
LEMMA StepNull ==
  ASSUME FileInv, NEW p \in Proc, FileallocNull(p)
  PROVE  FileInv'
<1>. USE DEF FileInv
<1>1. /\ pc[p] = "user" /\ ~Panicked /\ pc' = [pc EXCEPT ![p] = "panic"]
      /\ UNCHANGED <<file, pipe, iref, ofile, child, next, closing, using>>
  BY DEF FileallocNull, At, Goto, Panicked
<1>2. \A q \in Proc : pc'[q] = IF q = p THEN "panic" ELSE pc[q]
  BY <1>1 DEF FileTypes
<1>3. Counted' /\ OneCloser' /\ Ends' /\ Inodes'
  BY <1>1, <1>2, QuietStep
<1>4. FileTypes'
  BY <1>1 DEF FileTypes, FilePcs
<1>5. Loops' /\ Using'
  BY <1>1, <1>2 DEF Loops, Using
<1>6. Forks'
  BY <1>1, <1>2 DEF Forks
<1>. QED
  BY <1>3, <1>4, <1>5, <1>6

\* fileread, filewrite and filestat begin and end.
LEMMA StepUse ==
  ASSUME FileInv, NEW p \in Proc, Use(p) \/ Used(p)
  PROVE  FileInv'
<1>. USE DEF FileInv
<1>1. /\ pc[p] \in {"user", "using"} /\ ~Panicked
      /\ UNCHANGED <<file, pipe, iref, ofile, child, next, closing>>
  BY DEF Use, Used, At, Panicked
<1>2. PICK w \in {"user", "using"} : pc' = [pc EXCEPT ![p] = w]
  BY DEF Use, Used, Goto
<1>3. \A q \in Proc : pc'[q] = IF q = p THEN w ELSE pc[q]
  BY <1>2 DEF FileTypes
<1>4. Counted' /\ OneCloser' /\ Ends' /\ Inodes'
  BY <1>1, <1>3, QuietStep
<1>5. PICK x : /\ using' = [using EXCEPT ![p] = x]
               /\ w = "using" => x \in File /\ \E fd \in Fd : ofile[p][fd] = x
               /\ x \in File \union {NONE}
  BY <1>1, <1>2, <1>3 DEF Use, Used, Goto, FileTypes
<1>6. FileTypes'
  BY <1>1, <1>2, <1>5 DEF FileTypes, FilePcs
<1>7. Loops'
  BY <1>1, <1>3 DEF Loops
<1>8. Using'
  BY <1>1, <1>3, <1>5 DEF Using, FileTypes
<1>9. Forks'
  BY <1>1, <1>3 DEF Forks
<1>. QED
  BY <1>4, <1>6, <1>7, <1>8, <1>9

\* fork gets a slot for the child, and exit begins.
LEMMA StepForkExit ==
  ASSUME FileInv, NEW p \in Proc, fork(p) \/ exit(p)
  PROVE  FileInv'
<1>. USE DEF FileInv
<1>1. CASE exit(p)
  <2>1. /\ pc[p] = "user" /\ ~Panicked /\ pc' = [pc EXCEPT ![p] = "exit"]
        /\ UNCHANGED <<file, pipe, iref, ofile, child, next, closing, using>>
    BY <1>1 DEF exit, At, Goto, Panicked
  <2>2. \A q \in Proc : pc'[q] = IF q = p THEN "exit" ELSE pc[q]
    BY <2>1 DEF FileTypes
  <2>3. Counted' /\ OneCloser' /\ Ends' /\ Inodes'
    BY <2>1, <2>2, QuietStep
  <2>4. FileTypes'
    BY <2>1 DEF FileTypes, FilePcs
  <2>5. next[p] = 0
    BY <2>1, NextIsNat
  <2>6. Loops'
    BY <2>1, <2>2, <2>5, FileSizes DEF Loops
  <2>7. Using' /\ Forks'
    BY <2>1, <2>2 DEF Using, Forks
  <2>. QED
    BY <2>3, <2>4, <2>6, <2>7
<1>2. CASE fork(p)
  <2>1. PICK c \in Proc :
          /\ pc[c] = "unused" /\ child' = [child EXCEPT ![p] = c]
          /\ pc' = [pc EXCEPT ![p] = "fork", ![c] = "used"]
    BY <1>2 DEF fork
  <2>2. /\ pc[p] = "user" /\ ~Panicked /\ next' = [next EXCEPT ![p] = 0]
        /\ UNCHANGED <<file, pipe, iref, ofile, closing, using>>
    BY <1>2 DEF fork, At, Panicked
  <2>3. /\ \A q \in Proc : pc'[q] = IF q = c THEN "used" ELSE IF q = p THEN "fork" ELSE pc[q]
        /\ \A q \in Proc : child'[q] = IF q = p THEN c ELSE child[q]
        /\ \A q \in Proc : next'[q] = IF q = p THEN 0 ELSE next[q]
    BY <2>1, <2>2 DEF FileTypes
  <2>10. pc[c] = "unused" /\ pc[p] = "user" /\ UNCHANGED <<ofile, closing, using>>
    BY <2>1, <2>2
  <2>4. Counted' /\ OneCloser' /\ Ends' /\ Inodes'
    <3>1. \A q \in Proc : pc'[q] # pc[q] =>
            pc[q] \notin {"close", "put", "free"} /\ pc'[q] \notin {"close", "put", "free"}
      BY <2>3, <2>10
    <3>. QED
      BY <2>2, <3>1, QuietStep
  <2>5. FileTypes'
    <3>1. 0 \in 0..NOFILE
      BY FileSizes
    <3>. QED
      BY <2>1, <2>2, <3>1 DEF FileTypes, FilePcs
  <2>6. next[c] = 0 /\ next[p] = 0 /\ p # c
    BY <2>1, <2>2, NextIsNat
  <2>7. Loops'
    <3>1. ~(0 > 0)
      OBVIOUS
    <3>. QED
      BY <2>3, <2>6, <2>10, <3>1 DEF Loops
  <2>8. Using'
    BY <2>3, <2>10 DEF Using
  <2>9. Forks'
    <3>1. \A fd \in Fd : ofile[c][fd] = NONE
      BY <2>1 DEF Loops
    <3>2. ASSUME NEW q \in Proc, pc'[q] = "fork"
          PROVE  /\ child'[q] \in Proc /\ pc'[child'[q]] = "used"
                 /\ \A fd \in Fd : fd >= next'[q] => ofile'[child'[q]][fd] = NONE
      BY <2>3, <2>6, <2>10, <3>1, <3>2 DEF Forks
    <3>3. ASSUME NEW q \in Proc, NEW r \in Proc, pc'[q] = "fork", pc'[r] = "fork", child'[q] = child'[r]
          PROVE  q = r
      BY <2>3, <2>6, <2>10, <3>3 DEF Forks
    <3>. QED
      BY <3>2, <3>3 DEF Forks
  <2>. QED
    BY <2>4, <2>5, <2>7, <2>8, <2>9
<1>. QED
  BY <1>1, <1>2

-----------------------------------------------------------------------------
(* Steps that duplicate a descriptor or begin to close one *)

\* Without a panic f->ref is exact.
LEMMA RefExact ==
  ASSUME Counted, ~Panicked, NEW f \in File
  PROVE  IF file[f] = NONE THEN Refs(f) = 0 ELSE file[f].ref = Refs(f)
  BY DEF Counted

\* filedup, for descriptor fd of q.
LEMMA DupStep ==
  ASSUME FileInv, ~Panicked, NEW q \in Proc, NEW fd \in Fd, NEW f \in File, ofile[q][fd] = NONE,
         \A r \in Proc : r # q => ofile'[r] = ofile[r],
         \A k \in Fd : ofile'[q][k] = IF k = fd THEN f ELSE ofile[q][k],
         Dup(f), NEW e \in Place, Held[e] = f,
         pipe' = pipe, iref' = iref, pc' = pc, closing' = closing
  PROVE  /\ Counted' /\ OneCloser' /\ Ends' /\ Inodes'
         /\ file' \in [File -> StructFile \union {NONE}]
<1>. USE DEF FileInv
<1>1. file[f] # NONE /\ file[f] \in StructFile /\ file[f].ref \in Nat /\ file[f].ref > 0
  BY HolderCounts DEF StructFile
<1>2. /\ \A h \in File : h # f => file'[h] = file[h]
      /\ file' = [file EXCEPT ![f] = [file[f] EXCEPT !.ref = @ + 1]]
      /\ file'[f] = [file[f] EXCEPT !.ref = @ + 1]
  BY DEF Dup, FileTypes
<1>4. /\ file'[f] \in StructFile /\ file'[f].ref = file[f].ref + 1 /\ file'[f].type = file[f].type
      /\ file'[f].page = file[f].page /\ file'[f].writable = file[f].writable
  BY <1>1, <1>2 DEF StructFile
<1>3. file' \in [File -> StructFile \union {NONE}]
  <2>1. [file[f] EXCEPT !.ref = @ + 1] \in StructFile
    BY <1>2, <1>4
  <2>. QED
    BY <1>2, <2>1 DEF FileTypes
<1>5. /\ file'[f] # NONE /\ file'[f].ref = file[f].ref + 1
      /\ \A h \in File : h # f => file'[h] = file[h]
  BY <1>2, <1>4, FileAssumption
<1>6. fd \in Slot /\ <<q, fd>> \in Place
  BY FileSizes, HeldRows
<1>7. /\ HeldBy(ofile[q], closing[q], pc[q], fd) = NONE
      /\ HeldBy(ofile'[q], closing[q], pc[q], fd) = f
      /\ \A k \in Slot : k # fd =>
           HeldBy(ofile'[q], closing[q], pc[q], k) = HeldBy(ofile[q], closing[q], pc[q], k)
  BY RowSetFd
<1>8. Held[<<q, fd>>] = NONE /\ Held'[<<q, fd>>] = f
  BY <1>6, <1>7, HeldRows
<1>9. \A d \in Place : d # <<q, fd>> => Held'[d] = Held[d]
  BY <1>6, <1>7, OnePlace
<1>10. \A h \in File : Refs(h)' = IF h = f THEN Refs(h) + 1 ELSE Refs(h)
  BY <1>6, <1>8, <1>9, RefGained
<1>11. Counted'
  <2>1. \A h \in File : IF file[h] = NONE THEN Refs(h) = 0 ELSE file[h].ref = Refs(h)
    BY RefExact
  <2>2. \A h \in File : IF file'[h] = NONE THEN Refs(h)' = 0 ELSE file'[h].ref = Refs(h)'
    BY <1>1, <1>5, <1>10, <2>1
  <2>. QED
    BY <2>2 DEF Counted
<1>12. SameObjects
  BY <1>1, <1>4, <1>5 DEF SameObjects
<1>13. Ends' /\ Inodes'
  BY <1>12, ObjectsKept
<1>14. OneCloser'
  <2>1. \A h \in File : (file'[h] # NONE /\ file'[h].ref = 0) <=> (file[h] # NONE /\ file[h].ref = 0)
    BY <1>1, <1>5
  <2>2. \A r \in Proc : (Finishing(r)' <=> Finishing(r)) /\ (Finishing(r) => Last(r) \in File)
    BY LastIsFile DEF Finishing
  <2>. QED
    BY <2>1, <2>2, ClosersKept
<1>. QED
  BY <1>3, <1>11, <1>13, <1>14

\* dup.
LEMMA StepDup ==
  ASSUME FileInv, NEW p \in Proc, sys_dup(p)
  PROVE  FileInv'
<1>. USE DEF FileInv
<1>1. pc[p] = "user" /\ ~Panicked /\ UNCHANGED <<pipe, iref, pc, child, next, closing, using>>
  BY DEF sys_dup, At, Panicked
<1>2. PICK old \in Fd, fd \in Fd :
        /\ ofile[p][old] # NONE /\ ofile[p][fd] = NONE
        /\ ofile' = [ofile EXCEPT ![p][fd] = ofile[p][old]]
        /\ Dup(ofile[p][old])
  BY DEF sys_dup, fdalloc, FreeFd
<1>3. ofile[p][old] \in File
  BY <1>2 DEF FileTypes
<1>4. <<p, old>> \in Place /\ Held[<<p, old>>] = ofile[p][old]
  <2>1. old \in Slot
    BY FileSizes
  <2>2. HeldBy(ofile[p], closing[p], pc[p], old) = ofile[p][old]
    BY FdHolds
  <2>. QED
    BY <2>1, <2>2, HeldRows
<1>5. /\ ofile' \in [Proc -> [Fd -> File \union {NONE}]]
      /\ \A r \in Proc : r # p => ofile'[r] = ofile[r]
      /\ \A k \in Fd : ofile'[p][k] = IF k = fd THEN ofile[p][old] ELSE ofile[p][k]
  BY <1>2, <1>3 DEF FileTypes
<1>6. /\ Counted' /\ OneCloser' /\ Ends' /\ Inodes'
      /\ file' \in [File -> StructFile \union {NONE}]
  BY <1>1, <1>2, <1>3, <1>4, <1>5, DupStep
<1>7. FileTypes'
  BY <1>1, <1>5, <1>6 DEF FileTypes
<1>8. Loops'
  BY <1>1, <1>5 DEF Loops
<1>9. Using'
  BY <1>1, <1>5 DEF Using
<1>10. Forks'
  BY <1>1, <1>5 DEF Forks
<1>. QED
  BY <1>6, <1>7, <1>8, <1>9, <1>10

\* One iteration of fork's loop, or its end.
LEMMA StepForkDup ==
  ASSUME FileInv, NEW p \in Proc, ForkDup(p)
  PROVE  FileInv'
<1>. USE DEF FileInv
<1>. DEFINE c == child[p]
            n == next[p]
<1>1. pc[p] = "fork" /\ ~Panicked /\ UNCHANGED <<pipe, iref, closing, using>>
  BY DEF ForkDup, At, Panicked
<1>2. /\ c \in Proc /\ pc[c] = "used" /\ c # p /\ n \in Nat /\ n <= NOFILE
      /\ \A fd \in Fd : fd >= n => ofile[c][fd] = NONE
  BY <1>1, NextIsNat DEF Forks
<1>3. CASE n < NOFILE
  <2>1. n \in Fd /\ n + 1 \in 0..NOFILE
    BY <1>2, <1>3, FileSizes DEF Fd
  <2>2. next' = [next EXCEPT ![p] = n + 1] /\ UNCHANGED <<pc, child>>
    BY <1>2, <1>3, FileSizes DEF ForkDup
  <2>3. \A q \in Proc : next'[q] = IF q = p THEN n + 1 ELSE next[q]
    BY <2>2 DEF FileTypes
  <2>4. /\ Counted' /\ OneCloser' /\ Ends' /\ Inodes'
        /\ file' \in [File -> StructFile \union {NONE}]
        /\ ofile' \in [Proc -> [Fd -> File \union {NONE}]]
        /\ \A q \in Proc : q # c => ofile'[q] = ofile[q]
        /\ \A k \in Fd : k # n => ofile'[c][k] = ofile[c][k]
    <3>1. CASE ofile[p][n] = NONE
      <4>1. UNCHANGED <<file, ofile>>
        BY <1>2, <1>3, <3>1, FileSizes DEF ForkDup
      <4>2. Counted' /\ OneCloser' /\ Ends' /\ Inodes'
        BY <1>1, <2>2, <4>1, QuietStep
      <4>. QED
        BY <4>1, <4>2 DEF FileTypes
    <3>2. CASE ofile[p][n] # NONE
      <4>1. Dup(ofile[p][n]) /\ ofile' = [ofile EXCEPT ![c][n] = ofile[p][n]]
        BY <1>2, <1>3, <3>2, FileSizes DEF ForkDup
      <4>2. ofile[p][n] \in File
        BY <2>1, <3>2 DEF FileTypes
      <4>3. <<p, n>> \in Place /\ Held[<<p, n>>] = ofile[p][n]
        <5>1. n \in Slot
          BY <2>1, FileSizes
        <5>2. HeldBy(ofile[p], closing[p], pc[p], n) = ofile[p][n]
          BY <2>1, FdHolds
        <5>. QED
          BY <5>1, <5>2, HeldRows
      <4>4. /\ ofile' \in [Proc -> [Fd -> File \union {NONE}]]
            /\ \A q \in Proc : q # c => ofile'[q] = ofile[q]
            /\ \A k \in Fd : ofile'[c][k] = IF k = n THEN ofile[p][n] ELSE ofile[c][k]
        BY <1>2, <2>1, <4>1, <4>2 DEF FileTypes
      <4>5. ofile[c][n] = NONE
        BY <1>2, <2>1
      <4>. HIDE DEF c, n
      <4>6. /\ Counted' /\ OneCloser' /\ Ends' /\ Inodes'
            /\ file' \in [File -> StructFile \union {NONE}]
        BY <1>1, <1>2, <2>1, <2>2, <4>1, <4>2, <4>3, <4>4, <4>5, DupStep
      <4>. QED
        BY <4>4, <4>6
    <3>. QED
      BY <3>1, <3>2
  <2>. HIDE DEF c, n
  <2>5. FileTypes'
    BY <1>1, <2>1, <2>2, <2>4 DEF FileTypes
  <2>6. \A q \in Proc : pc[q] # "used" => ofile'[q] = ofile[q]
    BY <1>2, <2>4
  <2>7. Loops'
    BY <1>1, <2>2, <2>3, <2>6 DEF Loops
  <2>8. Using'
    BY <1>1, <2>2, <2>6 DEF Using
  <2>9. Forks'
    <3>1. ASSUME NEW q \in Proc, pc[q] = "fork", NEW fd \in Fd, fd >= next'[q]
          PROVE  ofile'[child[q]][fd] = NONE
      <4>1. CASE q = p
        <5>1. fd >= n /\ fd # n
          BY <1>2, <2>3, <3>1, <4>1, FileSizes
        <5>. QED
          BY <1>2, <2>4, <4>1, <5>1 DEF c
      <4>2. CASE q # p
        <5>1. child[q] # c /\ child[q] \in Proc
          BY <1>1, <3>1, <4>2 DEF Forks, c
        <5>2. ofile[child[q]][fd] = NONE
          BY <2>3, <3>1, <4>2 DEF Forks
        <5>. QED
          BY <2>4, <5>1, <5>2
      <4>. QED
        BY <4>1, <4>2
    <3>. QED
      BY <2>2, <3>1 DEF Forks
  <2>. QED
    BY <2>4, <2>5, <2>7, <2>8, <2>9
<1>4. CASE n = NOFILE
  <2>1. /\ pc' = [pc EXCEPT ![p] = "user", ![c] = "user"]
        /\ child' = [child EXCEPT ![p] = NONE] /\ next' = [next EXCEPT ![p] = 0]
        /\ UNCHANGED <<file, ofile>>
    BY <1>4, FileSizes DEF ForkDup
  <2>2. \A q \in Proc : /\ pc'[q] = IF q \in {p, c} THEN "user" ELSE pc[q]
                        /\ child'[q] = IF q = p THEN NONE ELSE child[q]
                        /\ next'[q] = IF q = p THEN 0 ELSE next[q]
    BY <1>2, <2>1 DEF FileTypes
  <2>3. FileTypes'
    <3>1. 0 \in 0..NOFILE
      BY FileSizes
    <3>. QED
      BY <1>1, <1>2, <2>1, <3>1 DEF FileTypes, FilePcs
  <2>4. UNCHANGED <<file, ofile, pipe, iref, closing, using>> /\ next[c] = 0
    BY <1>1, <1>2, <2>1, NextIsNat
  <2>. HIDE DEF c, n
  <2>5. Counted' /\ OneCloser' /\ Ends' /\ Inodes'
    <3>1. \A q \in Proc : pc'[q] # pc[q] =>
            pc[q] \notin {"close", "put", "free"} /\ pc'[q] \notin {"close", "put", "free"}
      BY <1>1, <1>2, <2>2
    <3>. QED
      BY <1>1, <2>4, <3>1, QuietStep
  <2>6. Loops'
    <3>1. ~(0 > 0)
      OBVIOUS
    <3>. QED
      BY <1>1, <1>2, <2>2, <2>4, <3>1 DEF Loops
  <2>7. Using'
    BY <1>1, <1>2, <2>2, <2>4 DEF Using
  <2>8. Forks'
    <3>1. \A q \in Proc : pc'[q] = "fork" =>
            pc[q] = "fork" /\ q # p /\ child'[q] = child[q] /\ next'[q] = next[q]
      BY <1>1, <1>2, <2>2
    <3>2. \A q \in Proc : pc'[q] = "fork" => child[q] # c
      BY <1>1, <3>1 DEF Forks, c
    <3>3. \A q \in Proc : pc'[q] = "fork" => child[q] \in Proc /\ pc'[child[q]] = "used"
      BY <1>1, <2>2, <3>1, <3>2 DEF Forks
    <3>. QED
      BY <2>4, <3>1, <3>3 DEF Forks
  <2>. QED
    BY <2>3, <2>5, <2>6, <2>7, <2>8
<1>. QED
  BY <1>2, <1>3, <1>4, FileSizes

\* A descriptor is cleared and its file is to be closed: the reference moves.
LEMMA BeginClose ==
  ASSUME FileInv, ~Panicked, NEW p \in Proc, NEW fd \in Fd, NEW f \in File, ofile[p][fd] = f,
         pc[p] \notin {"close", "put", "free"}, NEW cl \in Seq(File), Len(cl) = 1, cl[1] = f,
         \A q \in Proc : q # p => ofile'[q] = ofile[q] /\ closing'[q] = closing[q] /\ pc'[q] = pc[q],
         \A k \in Fd : ofile'[p][k] = IF k = fd THEN NONE ELSE ofile[p][k],
         closing'[p] = cl, pc'[p] = "close",
         file' = file, pipe' = pipe, iref' = iref
  PROVE  Counted' /\ OneCloser' /\ Ends' /\ Inodes'
<1>. USE DEF FileInv
<1>1. Len(closing[p]) = 0 /\ Len(closing[p]) \in Nat
  BY DEF Loops, FileTypes
<1>2. /\ fd \in Slot /\ NOFILE \in Slot /\ <<p, fd>> \in Place /\ <<p, NOFILE>> \in Place
      /\ <<p, fd>> # <<p, NOFILE>> /\ fd # NOFILE
  <2>1. fd \in Slot /\ NOFILE \in Slot /\ fd # NOFILE
    BY FileSizes
  <2>. QED
    BY <2>1, HeldRows
<1>3. /\ HeldBy(ofile[p], closing[p], pc[p], fd) = f
      /\ HeldBy(ofile[p], closing[p], pc[p], NOFILE) = NONE
      /\ HeldBy(ofile[p], closing[p], pc[p], NOFILE + 1) = NONE
      /\ \A k \in Fd : HeldBy(ofile[p], closing[p], pc[p], k) = ofile[p][k]
  <2>1. /\ HeldBy(ofile[p], closing[p], pc[p], NOFILE) = NONE
        /\ HeldBy(ofile[p], closing[p], pc[p], NOFILE + 1) = NONE
    BY <1>1, HeldIs
  <2>2. \A k \in Fd : HeldBy(ofile[p], closing[p], pc[p], k) = ofile[p][k]
    BY FdHolds
  <2>. QED
    BY <2>1, <2>2
<1>4. /\ HeldBy(ofile'[p], cl, "close", fd) = NONE
      /\ HeldBy(ofile'[p], cl, "close", NOFILE) = f
      /\ HeldBy(ofile'[p], cl, "close", NOFILE + 1) = NONE
      /\ \A k \in Fd : HeldBy(ofile'[p], cl, "close", k) = ofile'[p][k]
  <2>1. Len(cl) \in Nat
    OBVIOUS
  <2>2. /\ HeldBy(ofile'[p], cl, "close", NOFILE) = f
        /\ HeldBy(ofile'[p], cl, "close", NOFILE + 1) = NONE
        /\ \A k \in Fd : HeldBy(ofile'[p], cl, "close", k) = ofile'[p][k]
    BY <2>1, HeldIs
  <2>. QED
    BY <2>2
<1>5. /\ Held[<<p, fd>>] = f /\ Held[<<p, NOFILE>>] = NONE
      /\ Held'[<<p, fd>>] = NONE /\ Held'[<<p, NOFILE>>] = f
  BY <1>2, <1>3, <1>4, HeldRows
<1>6. \A e \in Place : e # <<p, fd>> /\ e # <<p, NOFILE>> => Held'[e] = Held[e]
  <2>1. \A k \in Slot : k # fd /\ k # NOFILE =>
          HeldBy(ofile'[p], closing'[p], pc'[p], k) = HeldBy(ofile[p], closing[p], pc[p], k)
    BY <1>3, <1>4, FileSizes
  <2>2. \A q \in Proc, k \in Slot : q # p \/ (k # fd /\ k # NOFILE) => Held'[<<q, k>>] = Held[<<q, k>>]
    BY <2>1, HeldRows
  <2>3. \A e \in Place : e = <<e[1], e[2]>> /\ e[1] \in Proc /\ e[2] \in Slot
    BY DEF Place
  <2>. QED
    BY <2>2, <2>3
<1>7. \A h \in File : Refs(h)' = Refs(h)
  BY <1>2, <1>5, <1>6, RefMoved
<1>8. Counted'
  <2>1. \A h \in File : IF file[h] = NONE THEN Refs(h) = 0 ELSE file[h].ref = Refs(h)
    BY RefExact
  <2>. QED
    BY <1>7, <2>1 DEF Counted
<1>9. \A q \in Proc : /\ Finishing(q)' <=> Finishing(q)
                      /\ Finishing(q) => closing'[q] = closing[q] /\ Last(q) \in File
                      /\ pc'[q] = "free" <=> pc[q] = "free"
                      /\ pc[q] = "free" => closing'[q] = closing[q]
  BY LastIsFile DEF Finishing
<1>10. OneCloser'
  BY <1>9, ClosersKept
<1>11. Ends' /\ Inodes'
  BY <1>9, ObjectsKept DEF SameObjects
<1>. QED
  BY <1>8, <1>10, <1>11

\* A sequence of one file.
LEMMA OneFile ==
  ASSUME NEW f \in File
  PROVE  <<f>> \in Seq(File) /\ Len(<<f>>) = 1 /\ <<f>>[1] = f
  OBVIOUS

\* close, and one iteration of exit's loop, or its end.
LEMMA StepClose ==
  ASSUME FileInv, NEW p \in Proc, sys_close(p) \/ ExitClose(p)
  PROVE  FileInv'
<1>. USE DEF FileInv
<1>1. ~Panicked /\ pc[p] \in {"user", "exit"} /\ UNCHANGED <<file, pipe, iref, child, using>>
  BY DEF sys_close, ExitClose, At, Panicked
<1>2. next[p] \in Nat /\ next[p] <= NOFILE /\ (pc[p] = "user" => next[p] = 0) /\ NOFILE \in Nat
  BY NextIsNat, FileSizes
<1>3. ASSUME NEW fd \in Fd, NEW m \in 0..NOFILE, ofile[p][fd] # NONE,
             ofile' = [ofile EXCEPT ![p][fd] = NONE],
             closing' = [closing EXCEPT ![p] = <<ofile[p][fd]>>],
             pc' = [pc EXCEPT ![p] = "close"],
             next' = [next EXCEPT ![p] = m],
             m = 0 \/ (pc[p] = "exit" /\ fd = next[p] /\ m = fd + 1)
      PROVE  FileInv'
  <2>. DEFINE f == ofile[p][fd]
              cl == <<f>>
  <2>1. f \in File
    BY <1>3 DEF FileTypes
  <2>2. cl \in Seq(File) /\ Len(cl) = 1 /\ cl[1] = f
    BY <2>1, OneFile
  <2>3. FileTypes'
    BY <1>1, <1>3, <2>2 DEF FileTypes, FilePcs
  <2>4. /\ \A q \in Proc : q # p => /\ ofile'[q] = ofile[q] /\ closing'[q] = closing[q]
                                    /\ pc'[q] = pc[q] /\ next'[q] = next[q]
        /\ \A k \in Fd : ofile'[p][k] = IF k = fd THEN NONE ELSE ofile[p][k]
        /\ closing'[p] = cl /\ pc'[p] = "close" /\ next'[p] = m
    BY <1>3 DEF FileTypes
  <2>. HIDE DEF cl
  <2>5. Counted' /\ OneCloser' /\ Ends' /\ Inodes'
    BY <1>1, <2>1, <2>2, <2>4, BeginClose
  <2>. HIDE DEF f
  <2>6. Loops'
    <3>1. \A k \in Fd : k < m => ofile'[p][k] = NONE
      <4>1. CASE m = 0
        BY <4>1, FileSizes
      <4>2. CASE pc[p] = "exit" /\ fd = next[p] /\ m = fd + 1
        <5>1. \A k \in Fd : k < next[p] => ofile[p][k] = NONE
          BY <4>2 DEF Loops
        <5>2. \A k \in Fd : k < m => k < next[p] \/ k = fd
          BY <1>2, <4>2, FileSizes
        <5>. QED
          BY <2>4, <5>1, <5>2
      <4>. QED
        BY <1>3, <4>1, <4>2
    <3>2. Len(closing'[p]) > 0 /\ Len(closing'[p]) <= 2
      <4>1. Len(closing'[p]) = 1
        BY <2>2, <2>4, Zenon
      <4>. QED
        BY <4>1
    <3>3. \A q \in Proc : q # p => /\ ofile'[q] = ofile[q] /\ closing'[q] = closing[q]
                                   /\ pc'[q] = pc[q] /\ next'[q] = next[q]
      BY <2>4
    <3>4. pc'[p] = "close" /\ next'[p] = m
      BY <2>4
    <3>. QED
      BY <3>1, <3>2, <3>3, <3>4 DEF Loops
  <2>7. Using'
    BY <1>1, <2>4 DEF Using
  <2>8. Forks'
    <3>1. \A q \in Proc : pc'[q] = "fork" => q # p /\ pc[q] = "fork" /\ child[q] # p
      BY <1>1, <2>4 DEF Forks
    <3>. QED
      BY <1>1, <2>4, <3>1 DEF Forks
  <2>. QED
    BY <2>3, <2>5, <2>6, <2>7, <2>8
<1>4. CASE sys_close(p)
  <2>1. PICK fd \in Fd : /\ ofile[p][fd] # NONE /\ ofile' = [ofile EXCEPT ![p][fd] = NONE]
                         /\ closing' = [closing EXCEPT ![p] = <<ofile[p][fd]>>]
    BY <1>4 DEF sys_close
  <2>2. pc' = [pc EXCEPT ![p] = "close"] /\ next' = next /\ pc[p] = "user"
    BY <1>4 DEF sys_close, Goto, At
  <2>3. next' = [next EXCEPT ![p] = 0] /\ 0 \in 0..NOFILE
    BY <1>2, <2>2 DEF FileTypes
  <2>. QED
    BY <1>3, <2>1, <2>2, <2>3
<1>5. CASE ExitClose(p) /\ next[p] < NOFILE /\ ofile[p][next[p]] # NONE
  <2>1. /\ closing' = [closing EXCEPT ![p] = <<ofile[p][next[p]]>>]
        /\ ofile' = [ofile EXCEPT ![p][next[p]] = NONE]
        /\ pc' = [pc EXCEPT ![p] = "close"] /\ pc[p] = "exit"
        /\ next' = [next EXCEPT ![p] = next[p] + 1]
    BY <1>2, <1>5 DEF ExitClose, Goto, At
  <2>2. next[p] \in Fd /\ next[p] + 1 \in 0..NOFILE
    BY <1>2, <1>5 DEF Fd
  <2>. QED
    BY <1>3, <1>5, <2>1, <2>2
<1>6. CASE ExitClose(p) /\ next[p] < NOFILE /\ ofile[p][next[p]] = NONE
  <2>1. UNCHANGED <<ofile, closing, pc>> /\ next' = [next EXCEPT ![p] = next[p] + 1] /\ pc[p] = "exit"
    BY <1>2, <1>6 DEF ExitClose, At
  <2>2. next[p] \in Fd /\ next[p] + 1 \in 0..NOFILE /\ \A k \in Fd : k < next[p] + 1 => k < next[p] \/ k = next[p]
    BY <1>2, <1>6 DEF Fd
  <2>3. FileTypes'
    BY <1>1, <2>1, <2>2 DEF FileTypes
  <2>4. \A q \in Proc : next'[q] = IF q = p THEN next[p] + 1 ELSE next[q]
    BY <2>1 DEF FileTypes
  <2>5. Counted' /\ OneCloser' /\ Ends' /\ Inodes'
    BY <1>1, <2>1, QuietStep
  <2>6. \A k \in Fd : k < next'[p] => ofile[p][k] = NONE
    BY <1>6, <2>1, <2>2, <2>4 DEF Loops
  <2>7. Loops'
    BY <2>1, <2>4, <2>6 DEF Loops
  <2>8. Using' /\ Forks'
    BY <1>1, <2>1, <2>4 DEF Using, Forks
  <2>. QED
    BY <2>3, <2>5, <2>7, <2>8
<1>7. CASE ExitClose(p) /\ next[p] = NOFILE
  <2>1. /\ UNCHANGED <<ofile, closing>> /\ next' = [next EXCEPT ![p] = 0] /\ pc[p] = "exit"
        /\ pc' = [pc EXCEPT ![p] = "unused"]
    BY <1>2, <1>7 DEF ExitClose, At, Goto
  <2>2. FileTypes'
    <3>1. 0 \in 0..NOFILE
      BY <1>2
    <3>. QED
      BY <1>1, <2>1, <3>1 DEF FileTypes, FilePcs
  <2>3. \A q \in Proc : /\ next'[q] = IF q = p THEN 0 ELSE next[q]
                        /\ pc'[q] = IF q = p THEN "unused" ELSE pc[q]
    BY <2>1 DEF FileTypes
  <2>4. Counted' /\ OneCloser' /\ Ends' /\ Inodes'
    BY <1>1, <2>1, <2>3, QuietStep
  <2>5. \A k \in Fd : ofile[p][k] = NONE
    BY <1>7, <2>1, FileSizes DEF Loops, Fd
  <2>6. Loops'
    <3>1. ~(0 > 0)
      OBVIOUS
    <3>. QED
      BY <2>1, <2>3, <2>5, <3>1 DEF Loops
  <2>7. Using'
    BY <1>1, <2>1, <2>3 DEF Using
  <2>8. Forks'
    BY <1>1, <2>1, <2>3 DEF Forks
  <2>. QED
    BY <2>2, <2>4, <2>6, <2>7, <2>8
<1>. QED
  BY <1>2, <1>4, <1>5, <1>6, <1>7

-----------------------------------------------------------------------------
(* fileclose *)

\* The place of the close under way, given what is left to close.
CloseSlot(cl) == NOFILE + Len(cl) - 1

\* What is left of a sequence of two.
LEMMA SecondIs ==
  ASSUME NEW S, NEW s \in Seq(S), Len(s) = 2
  PROVE  Tail(s)[1] = s[2]
<1>1. s # <<>> /\ Len(Tail(s)) = 1
  OBVIOUS
<1>2. \A i \in 1..1 : Tail(s)[i] = s[i + 1]
  BY <1>1
<1>3. 1 \in 1..1 /\ 1 + 1 = 2
  OBVIOUS
<1>. QED
  BY <1>2, <1>3

\* What is left of one or two files.
LEMMA TailIs ==
  ASSUME NEW s \in Seq(File), Len(s) \in {1, 2}
  PROVE  /\ Tail(s) \in Seq(File) /\ Len(Tail(s)) = Len(s) - 1
         /\ Tail(s) # <<>> <=> Len(s) = 2
         /\ Len(s) = 2 => Tail(s)[1] = s[2]
<1>1. s # <<>>
  OBVIOUS
<1>2. Tail(s) \in Seq(File) /\ Len(Tail(s)) = Len(s) - 1
  BY <1>1
<1>3. Len(s) = 2 => Tail(s)[1] = s[2]
  BY SecondIs
<1>4. Tail(s) # <<>> <=> Len(Tail(s)) # 0
  BY <1>2
<1>. QED
  BY <1>2, <1>3, <1>4

\* A process is done with the first of the files it closes.
LEMMA RowTail ==
  ASSUME NEW fds, NEW cl \in Seq(File), Len(cl) \in {1, 2}, NEW v,
         Tail(cl) # <<>> => v = "close"
  PROVE  /\ CloseSlot(cl) \in Slot
         /\ HeldBy(fds, cl, "close", CloseSlot(cl)) = cl[1]
         /\ HeldBy(fds, Tail(cl), v, CloseSlot(cl)) = NONE
         /\ \A k \in Slot : k # CloseSlot(cl) =>
              HeldBy(fds, Tail(cl), v, k) = HeldBy(fds, cl, "close", k)
<1>. DEFINE t == Tail(cl)
<1>1. /\ t \in Seq(File) /\ Len(t) = Len(cl) - 1 /\ (Len(cl) = 2 => t[1] = cl[2] /\ t # <<>>)
      /\ Len(t) \in Nat /\ Len(cl) \in Nat
  BY TailIs
<1>. HIDE DEF t
<1>2. \A k \in Fd : /\ HeldBy(fds, t, v, k) = fds[k]
                    /\ HeldBy(fds, cl, "close", k) = fds[k]
  BY FdHolds
<1>3. CASE Len(cl) = 1
  <2>1. CloseSlot(cl) = NOFILE
    BY <1>3, FileSizes DEF CloseSlot
  <2>2. /\ HeldBy(fds, cl, "close", NOFILE) = cl[1] /\ HeldBy(fds, cl, "close", NOFILE + 1) = NONE
    BY <1>3, HeldOne
  <2>4. /\ HeldBy(fds, t, v, NOFILE) = NONE /\ HeldBy(fds, t, v, NOFILE + 1) = NONE
    <3>1. Len(t) = 0
      BY <1>1, <1>3
    <3>. QED
      BY <1>1, <3>1, HeldIs
  <2>. QED
    BY <1>2, <2>1, <2>2, <2>4, FileSizes DEF t
<1>4. CASE Len(cl) = 2
  <2>1. CloseSlot(cl) = NOFILE + 1
    BY <1>4, FileSizes DEF CloseSlot
  <2>2. /\ HeldBy(fds, cl, "close", NOFILE) = cl[2] /\ HeldBy(fds, cl, "close", NOFILE + 1) = cl[1]
    BY <1>4, HeldTwo
  <2>4. /\ HeldBy(fds, t, v, NOFILE) = cl[2] /\ HeldBy(fds, t, v, NOFILE + 1) = NONE
    <3>1. Len(t) = 1 /\ v = "close" /\ t[1] = cl[2]
      BY <1>1, <1>4 DEF t
    <3>. QED
      BY <3>1, HeldOne
  <2>. QED
    BY <1>2, <2>1, <2>2, <2>4, FileSizes DEF t
<1>. QED
  BY <1>3, <1>4

\* Between giving up the last reference to that file and freeing it, the process
\* holds only the other one.
LEMMA RowLeft ==
  ASSUME NEW fds, NEW cl \in Seq(File), Len(cl) \in {1, 2}, NEW w
  PROVE  /\ w # "close" => HeldBy(fds, cl, w, CloseSlot(cl)) = NONE
         /\ \A k \in Slot : k # CloseSlot(cl) =>
              HeldBy(fds, cl, "close", k) = HeldBy(fds, cl, w, k)
<1>1. \A k \in Fd : /\ HeldBy(fds, cl, w, k) = fds[k]
                    /\ HeldBy(fds, cl, "close", k) = fds[k]
  BY FdHolds
<1>2. CASE Len(cl) = 1
  <2>1. CloseSlot(cl) = NOFILE
    BY <1>2, FileSizes DEF CloseSlot
  <2>2. /\ HeldBy(fds, cl, "close", NOFILE + 1) = NONE
        /\ w # "close" => HeldBy(fds, cl, w, NOFILE) = NONE
        /\ HeldBy(fds, cl, w, NOFILE + 1) = NONE
    BY <1>2, HeldOne
  <2>. QED
    BY <1>1, <2>1, <2>2, FileSizes
<1>3. CASE Len(cl) = 2
  <2>1. CloseSlot(cl) = NOFILE + 1
    BY <1>3, FileSizes DEF CloseSlot
  <2>2. /\ HeldBy(fds, cl, "close", NOFILE) = cl[2]
        /\ w # "close" => HeldBy(fds, cl, w, NOFILE + 1) = NONE
        /\ HeldBy(fds, cl, w, NOFILE) = cl[2]
    BY <1>3, HeldTwo
  <2>. QED
    BY <1>1, <2>1, <2>2, FileSizes
<1>. QED
  BY <1>2, <1>3

\* Where Closed takes a process.
LEMMA ClosedFacts ==
  ASSUME FileTypes, Loops, NEW p \in Proc, pc[p] \in {"close", "put", "free"}, Closed(p)
  PROVE  /\ \A q \in Proc : q # p => closing'[q] = closing[q] /\ pc'[q] = pc[q]
         /\ closing'[p] = Tail(closing[p]) /\ pc'[p] \in {"close", "exit", "user"}
         /\ Tail(closing[p]) # <<>> => pc'[p] = "close"
         /\ pc'[p] = "close" <=> Len(closing'[p]) > 0
         /\ Len(closing'[p]) <= 2
         /\ pc'[p] = "user" => next[p] = 0
         /\ closing' \in [Proc -> Seq(File)] /\ pc' \in [Proc -> FilePcs]
<1>. DEFINE t == Tail(closing[p])
<1>1. /\ closing[p] \in Seq(File) /\ Len(closing[p]) \in {1, 2}
      /\ next[p] \in Nat
  BY LastIsFile, NextIsNat
<1>2. t \in Seq(File) /\ (t # <<>> <=> Len(t) > 0) /\ Len(t) <= 2
  <2>1. t \in Seq(File) /\ Len(t) = Len(closing[p]) - 1 /\ (t # <<>> <=> Len(closing[p]) = 2)
    BY <1>1, TailIs
  <2>. HIDE DEF t
  <2>. QED
    BY <1>1, <2>1
<1>3. PICK v : /\ closing' = [closing EXCEPT ![p] = t] /\ pc' = [pc EXCEPT ![p] = v]
               /\ v = CASE t # <<>> -> "close"
                        [] t = <<>> /\ next[p] > 0 -> "exit"
                        [] OTHER -> "user"
  BY DEF Closed, Goto
<1>. HIDE DEF t
<1>4. v \in {"close", "exit", "user"} /\ (v = "close" <=> t # <<>>) /\ (v = "user" => next[p] = 0)
  <2>1. CASE t # <<>>
    BY <1>3, <2>1
  <2>2. CASE t = <<>> /\ next[p] > 0
    BY <1>1, <1>3, <2>2
  <2>3. CASE t = <<>> /\ ~(next[p] > 0)
    BY <1>1, <1>3, <2>3
  <2>. QED
    BY <2>1, <2>2, <2>3
<1>5. closing'[p] = t /\ pc'[p] = v /\ \A q \in Proc : q # p => closing'[q] = closing[q] /\ pc'[q] = pc[q]
  BY <1>3 DEF FileTypes
<1>6. closing' \in [Proc -> Seq(File)] /\ pc' \in [Proc -> FilePcs]
  BY <1>2, <1>3, <1>4 DEF FileTypes, FilePcs
<1>. QED
  BY <1>2, <1>4, <1>5, <1>6 DEF t

\* The loops and the forks after Closed.
LEMMA ClosedLoops ==
  ASSUME FileTypes, Loops, Using, Forks, NEW p \in Proc, pc[p] \in {"close", "put", "free"}, Closed(p),
         ofile' = ofile, next' = next, child' = child, using' = using
  PROVE  Loops' /\ Using' /\ Forks'
<1>1. /\ \A q \in Proc : q # p => closing'[q] = closing[q] /\ pc'[q] = pc[q]
      /\ pc'[p] \in {"close", "exit", "user"}
      /\ pc'[p] = "close" <=> Len(closing'[p]) > 0
      /\ Len(closing'[p]) <= 2
      /\ pc'[p] = "user" => next[p] = 0
  BY ClosedFacts
<1>2. Loops'
  <2>1. next[p] = 0 => ~(next[p] > 0)
    OBVIOUS
  <2>. QED
    BY <1>1, <2>1 DEF Loops
<1>3. Using'
  BY <1>1 DEF Using
<1>4. Forks'
  BY <1>1 DEF Forks
<1>. QED
  BY <1>2, <1>3, <1>4

\* --f->ref > 0.
LEMMA StepFileclose ==
  ASSUME FileInv, NEW p \in Proc, fileclose(p)
  PROVE  FileInv'
<1>. USE DEF FileInv
<1>. DEFINE f == Last(p)
            cl == closing[p]
<1>1. /\ pc[p] = "close" /\ ~Panicked /\ Closed(p) /\ file[f].ref > 1
      /\ file' = [file EXCEPT ![f].ref = @ - 1]
      /\ UNCHANGED <<pipe, iref, ofile, child, next, using>>
  BY DEF fileclose, At, Panicked
<1>2. cl \in Seq(File) /\ Len(cl) \in {1, 2} /\ f = cl[1] /\ f \in File
  BY <1>1, LastIsFile
<1>3. /\ \A q \in Proc : q # p => closing'[q] = closing[q] /\ pc'[q] = pc[q]
      /\ closing'[p] = Tail(cl) /\ pc'[p] \in {"close", "exit", "user"}
      /\ Tail(cl) # <<>> => pc'[p] = "close"
      /\ closing' \in [Proc -> Seq(File)] /\ pc' \in [Proc -> FilePcs]
  BY <1>1, ClosedFacts
<1>4. Loops' /\ Using' /\ Forks'
  BY <1>1, ClosedLoops
<1>. HIDE DEF f, cl
<1>5. /\ CloseSlot(cl) \in Slot
      /\ HeldBy(ofile[p], cl, "close", CloseSlot(cl)) = f
      /\ HeldBy(ofile[p], Tail(cl), pc'[p], CloseSlot(cl)) = NONE
      /\ \A k \in Slot : k # CloseSlot(cl) =>
           HeldBy(ofile[p], Tail(cl), pc'[p], k) = HeldBy(ofile[p], cl, "close", k)
  <2>1. PICK v : v = pc'[p]
    OBVIOUS
  <2>2. PICK fds : fds = ofile[p]
    OBVIOUS
  <2>3. Tail(cl) # <<>> => v = "close"
    BY <1>3, <2>1
  <2>4. CloseSlot(cl) \in Slot /\ HeldBy(fds, cl, "close", CloseSlot(cl)) = cl[1]
    BY <1>2, <2>3, RowTail
  <2>5. HeldBy(fds, Tail(cl), v, CloseSlot(cl)) = NONE
    BY <1>2, <2>3, RowTail
  <2>6. \A k \in Slot : k # CloseSlot(cl) =>
          HeldBy(fds, Tail(cl), v, k) = HeldBy(fds, cl, "close", k)
    BY ZenonT(30), <1>2, <2>3, RowTail
  <2>. QED
    BY <1>2, <2>1, <2>2, <2>4, <2>5, <2>6
<1>6. PICK d \in Slot : d = CloseSlot(cl)
  BY <1>5
<1>7. <<p, d>> \in Place /\ Held[<<p, d>>] = f /\ Held'[<<p, d>>] = NONE
  <2>1. ofile' = ofile
    BY <1>1
  <2>. QED
    BY <1>1, <1>3, <1>5, <1>6, <2>1, HeldRows DEF cl
<1>8. \A e \in Place : e # <<p, d>> => Held'[e] = Held[e]
  <2>1. ofile' = ofile /\ closing'[p] = Tail(cl) /\ pc[p] = "close" /\ cl = closing[p]
    BY <1>1, <1>3 DEF cl
  <2>2. \A k \in Slot : k # d =>
          HeldBy(ofile'[p], closing'[p], pc'[p], k) = HeldBy(ofile[p], closing[p], pc[p], k)
    BY <1>5, <1>6, <2>1
  <2>. QED
    BY <1>3, <2>1, <2>2, OnePlace
<1>9. \A h \in File : Refs(h)' = IF h = f THEN Refs(h) - 1 ELSE Refs(h)
  BY <1>2, <1>7, <1>8, RefLost
<1>10. file[f] # NONE /\ file[f] \in StructFile /\ file[f].ref \in Nat
  BY <1>2, <1>7, HolderCounts DEF StructFile
<1>11. /\ \A h \in File : h # f => file'[h] = file[h]
       /\ file' = [file EXCEPT ![f] = [file[f] EXCEPT !.ref = @ - 1]]
       /\ file'[f] = [file[f] EXCEPT !.ref = @ - 1]
  BY <1>1, <1>2 DEF FileTypes
<1>12. /\ file'[f] \in StructFile /\ file'[f].ref = file[f].ref - 1 /\ file'[f].type = file[f].type
       /\ file'[f].page = file[f].page /\ file'[f].writable = file[f].writable
  BY <1>1, <1>10, <1>11 DEF StructFile
<1>13. FileTypes'
  <2>1. [file[f] EXCEPT !.ref = @ - 1] \in StructFile
    BY <1>11, <1>12
  <2>2. file' \in [File -> StructFile \union {NONE}]
    BY <1>11, <2>1 DEF FileTypes
  <2>. QED
    BY <1>1, <1>3, <2>2 DEF FileTypes
<1>14. file'[f] # NONE /\ file'[f].ref = file[f].ref - 1 /\ \A h \in File : h # f => file'[h] = file[h]
  BY <1>11, <1>12, FileAssumption
<1>15. Counted'
  <2>1. \A h \in File : IF file[h] = NONE THEN Refs(h) = 0 ELSE file[h].ref = Refs(h)
    BY <1>1, RefExact
  <2>2. \A h \in File : IF file'[h] = NONE THEN Refs(h)' = 0 ELSE file'[h].ref = Refs(h)'
    BY <1>9, <1>10, <1>14, <2>1
  <2>. QED
    BY <2>2 DEF Counted
<1>16. \A q \in Proc : /\ Finishing(q)' <=> Finishing(q)
                       /\ Finishing(q) => closing'[q] = closing[q] /\ Last(q) \in File
                       /\ pc'[q] = "free" <=> pc[q] = "free"
                       /\ pc[q] = "free" => closing'[q] = closing[q]
  BY <1>1, <1>3, LastIsFile DEF Finishing
<1>17. OneCloser'
  <2>1. \A h \in File : (file'[h] # NONE /\ file'[h].ref = 0) <=> (file[h] # NONE /\ file[h].ref = 0)
    BY <1>1, <1>10, <1>14
  <2>. QED
    BY <1>16, <2>1, ClosersKept
<1>18. Ends' /\ Inodes'
  <2>1. SameObjects
    BY <1>10, <1>12, <1>14 DEF SameObjects
  <2>2. UNCHANGED <<pipe, iref>>
    BY <1>1
  <2>. QED
    BY <1>16, <2>1, <2>2, ObjectsKept
<1>. QED
  BY <1>4, <1>13, <1>15, <1>17, <1>18

\* The last reference goes.
LEMMA StepCloseLast ==
  ASSUME FileInv, NEW p \in Proc, FilecloseLast(p)
  PROVE  FileInv'
<1>. USE DEF FileInv
<1>. DEFINE f == Last(p)
            cl == closing[p]
<1>1. /\ pc[p] = "close" /\ ~Panicked /\ file[f].ref = 1
      /\ file' = [file EXCEPT ![f].ref = 0] /\ pc' = [pc EXCEPT ![p] = "put"]
      /\ UNCHANGED <<pipe, iref, ofile, child, next, closing, using>>
  BY DEF FilecloseLast, At, Panicked, Goto
<1>2. cl \in Seq(File) /\ Len(cl) \in {1, 2} /\ f = cl[1] /\ f \in File
  BY <1>1, LastIsFile
<1>3. \A q \in Proc : pc'[q] = IF q = p THEN "put" ELSE pc[q]
  BY <1>1 DEF FileTypes
<1>4. Loops' /\ Using' /\ Forks'
  BY <1>1, <1>3 DEF Loops, Using, Forks
<1>. HIDE DEF f, cl
<1>5. /\ CloseSlot(cl) \in Slot
      /\ HeldBy(ofile[p], cl, "close", CloseSlot(cl)) = f
      /\ HeldBy(ofile[p], cl, "put", CloseSlot(cl)) = NONE
      /\ \A k \in Slot : k # CloseSlot(cl) =>
           HeldBy(ofile[p], cl, "close", k) = HeldBy(ofile[p], cl, "put", k)
  <2>1. CloseSlot(cl) \in Slot /\ HeldBy(ofile[p], cl, "close", CloseSlot(cl)) = cl[1]
    <3>1. PICK v : v = "close"
      OBVIOUS
    <3>. QED
      BY <1>2, <3>1, RowTail
  <2>2. HeldBy(ofile[p], cl, "put", CloseSlot(cl)) = NONE
    BY <1>2, RowLeft
  <2>3. \A k \in Slot : k # CloseSlot(cl) =>
          HeldBy(ofile[p], cl, "close", k) = HeldBy(ofile[p], cl, "put", k)
    BY <1>2, RowLeft
  <2>. QED
    BY <1>2, <2>1, <2>2, <2>3
<1>6. PICK d \in Slot : d = CloseSlot(cl)
  BY <1>5
<1>7. ofile' = ofile /\ closing' = closing /\ cl = closing[p] /\ pc[p] = "close" /\ pc'[p] = "put"
  BY <1>1, <1>3 DEF cl
<1>8. <<p, d>> \in Place /\ Held[<<p, d>>] = f /\ Held'[<<p, d>>] = NONE
  BY <1>5, <1>6, <1>7, HeldRows
<1>9. \A e \in Place : e # <<p, d>> => Held'[e] = Held[e]
  <2>1. \A k \in Slot : k # d =>
          HeldBy(ofile'[p], closing'[p], pc'[p], k) = HeldBy(ofile[p], closing[p], pc[p], k)
    BY <1>5, <1>6, <1>7
  <2>. QED
    BY <1>3, <1>7, <2>1, OnePlace
<1>10. \A h \in File : Refs(h)' = IF h = f THEN Refs(h) - 1 ELSE Refs(h)
  BY <1>2, <1>8, <1>9, RefLost
<1>11. file[f] # NONE /\ file[f] \in StructFile /\ file[f].ref = 1
  BY <1>1, <1>2, <1>8, HolderCounts
<1>12. /\ \A h \in File : h # f => file'[h] = file[h]
       /\ file' = [file EXCEPT ![f] = [file[f] EXCEPT !.ref = 0]]
       /\ file'[f] = [file[f] EXCEPT !.ref = 0]
  BY <1>1, <1>2 DEF FileTypes
<1>13. /\ file'[f] \in StructFile /\ file'[f].ref = 0 /\ file'[f].type = file[f].type
       /\ file'[f].page = file[f].page /\ file'[f].writable = file[f].writable
  BY <1>11, <1>12 DEF StructFile
<1>14. FileTypes'
  <2>1. [file[f] EXCEPT !.ref = 0] \in StructFile
    BY <1>12, <1>13
  <2>2. file' \in [File -> StructFile \union {NONE}]
    BY <1>12, <2>1 DEF FileTypes
  <2>. QED
    BY <1>1, <2>2 DEF FileTypes, FilePcs
<1>15. file'[f] # NONE /\ file'[f].ref = 0 /\ \A h \in File : h # f => file'[h] = file[h]
  BY <1>12, <1>13, FileAssumption
<1>16. Counted'
  <2>1. \A h \in File : IF file[h] = NONE THEN Refs(h) = 0 ELSE file[h].ref = Refs(h)
    BY <1>1, RefExact
  <2>2. \A h \in File : IF file'[h] = NONE THEN Refs(h)' = 0 ELSE file'[h].ref = Refs(h)'
    BY <1>10, <1>11, <1>15, <2>1
  <2>. QED
    BY <2>2 DEF Counted
<1>17. \A q \in Proc : /\ Finishing(q)' <=> q = p \/ Finishing(q)
                       /\ Finishing(q) => q # p /\ Last(q) \in File /\ Last(q) # f
                       /\ Last(q)' = Last(q)
  <2>1. \A q \in Proc : Finishing(q) => Last(q) \in File /\ file[Last(q)].ref = 0
    BY LastIsFile DEF Finishing, OneCloser
  <2>2. \A q \in Proc : Finishing(q) => Last(q) # f
    BY <1>11, <2>1
  <2>3. \A q \in Proc : /\ Finishing(q)' <=> q = p \/ Finishing(q)
                        /\ Finishing(q) => q # p
    BY <1>3, <1>7 DEF Finishing
  <2>. QED
    BY <1>7, <2>1, <2>2, <2>3 DEF Last
<1>18. OneCloser'
  <2>1. \A q \in Proc : Finishing(q)' => file'[Last(q)'] # NONE /\ file'[Last(q)'].ref = 0
    BY <1>15, <1>17 DEF OneCloser, f
  <2>2. \A q, r \in Proc : Finishing(q)' /\ Finishing(r)' /\ Last(q)' = Last(r)' => q = r
    BY <1>17 DEF OneCloser, f
  <2>3. \A h \in File : file'[h] # NONE /\ file'[h].ref = 0 => \E q \in Proc : Finishing(q)' /\ Last(q)' = h
    BY <1>15, <1>17 DEF OneCloser, f
  <2>. QED
    BY <2>1, <2>2, <2>3 DEF OneCloser
<1>19. Ends' /\ Inodes'
  <2>1. SameObjects
    BY <1>11, <1>13, <1>15 DEF SameObjects
  <2>2. UNCHANGED <<pipe, iref>> /\ \A q \in Proc : pc'[q] = "free" <=> pc[q] = "free"
    BY <1>1, <1>3
  <2>. QED
    BY <1>7, <2>1, <2>2, ObjectsKept
<1>. QED
  BY <1>4, <1>14, <1>16, <1>18, <1>19

\* pipeclose, or iput.
LEMMA StepCloseObject ==
  ASSUME FileInv, NEW p \in Proc, FilecloseObject(p)
  PROVE  FileInv'
<1>. USE DEF FileInv
<1>1. /\ pc[p] = "put" /\ ~Panicked /\ pc' = [pc EXCEPT ![p] = "free"]
      /\ UNCHANGED <<file, ofile, child, next, closing, using>>
  BY DEF FilecloseObject, At, Panicked, Goto
<1>2. \A q \in Proc : pc'[q] = IF q = p THEN "free" ELSE pc[q]
  BY <1>1 DEF FileTypes
<1>3. Loops' /\ Using' /\ Forks'
  BY <1>1, <1>2 DEF Loops, Using, Forks
<1>4. Counted'
  <2>1. \A q \in Proc : \A k \in Slot :
          HeldBy(ofile'[q], closing'[q], pc'[q], k) = HeldBy(ofile[q], closing[q], pc[q], k)
    <3>1. SUFFICES ASSUME NEW q \in Proc
                   PROVE  \A k \in Slot : HeldBy(ofile[q], closing[q], pc'[q], k)
                                            = HeldBy(ofile[q], closing[q], pc[q], k)
      BY <1>1
    <3>2. Len(closing[q]) \in Nat /\ (pc'[q] = "close" <=> pc[q] = "close")
      BY <1>1, <1>2 DEF FileTypes
    <3>. QED
      BY <3>2, SameRow
  <2>2. \A h \in File : Refs(h)' = Refs(h)
    BY <2>1, RefsKept
  <2>3. \A h \in File : IF file[h] = NONE THEN Refs(h) = 0 ELSE file[h].ref = Refs(h)
    BY <1>1, RefExact
  <2>. QED
    BY <1>1, <2>2, <2>3 DEF Counted
<1>5. \A q \in Proc : Finishing(q)' <=> Finishing(q)
  BY <1>1, <1>2 DEF Finishing
<1>6. \A q \in Proc : Last(q)' = Last(q) /\ (Finishing(q) => Last(q) \in File)
  BY <1>1, LastIsFile DEF Last, Finishing
<1>7. OneCloser'
  BY <1>1, <1>5, <1>6, ClosersKept
<1>8. PICK f \in File : f = Last(p) /\ file[f] # NONE /\ file[f] \in StructFile
  BY <1>1, LastIsFile DEF OneCloser, Finishing, FileTypes
<1>9. Holds(f) /\ ~Holds(f)' /\ \A h \in File : h # f => (Holds(h)' <=> Holds(h))
  <2>1. \A q \in Proc : pc[q] = "free" => Last(q) # f
    BY <1>1, <1>8 DEF OneCloser, Finishing
  <2>. QED
    BY <1>1, <1>2, <1>6, <1>8, <2>1 DEF Holds
<1>10. /\ \A g, w : ~IsEnd(f, g, w)'
       /\ \A h \in File : \A g, w : h # f => (IsEnd(h, g, w)' <=> IsEnd(h, g, w))
  BY <1>1, <1>9 DEF IsEnd
<1>11. HasPage'
  BY <1>1 DEF Ends, HasPage
<1>12. CASE file[f].type = "FD_PIPE"
  <2>2. PICK g \in Page, w \in BOOLEAN : g = file[f].page /\ w = file[f].writable /\ IsEnd(f, g, w)
    BY <1>8, <1>9, <1>12 DEF Ends, HasPage, StructFile, IsEnd
  <2>. DEFINE ends == IF w THEN [pipe[g] EXCEPT !.writeopen = FALSE]
                      ELSE [pipe[g] EXCEPT !.readopen = FALSE]
  <2>1. /\ pipe' = [pipe EXCEPT ![g] = IF ends.readopen \/ ends.writeopen THEN ends ELSE NONE]
        /\ iref' = iref
    BY <1>8, <1>12, <2>2 DEF FilecloseObject
  <2>3. pipe[g] # NONE /\ pipe[g] \in StructPipe /\ (IF w THEN pipe[g].writeopen ELSE pipe[g].readopen)
    BY <1>8, <2>2 DEF Ends, EndIsOpen, FileTypes
  <2>4. /\ ends \in StructPipe
        /\ ends.writeopen = IF w THEN FALSE ELSE pipe[g].writeopen
        /\ ends.readopen = IF w THEN pipe[g].readopen ELSE FALSE
    BY <2>2, <2>3 DEF StructPipe
  <2>. HIDE DEF ends
  <2>5. ends # NONE
    BY <2>4, FileAssumption
  <2>6. /\ pipe' \in [Page -> StructPipe \union {NONE}]
        /\ \A x \in Page : x # g => pipe'[x] = pipe[x]
        /\ pipe'[g] = IF ends.readopen \/ ends.writeopen THEN ends ELSE NONE
    BY <2>1, <2>2, <2>4 DEF FileTypes
  <2>7. FileTypes'
    BY <1>1, <2>1, <2>6 DEF FileTypes, FilePcs
  <2>8. \A h \in File : ~IsEnd(h, g, w)'
    <3>1. \A h \in File : IsEnd(h, g, w) => h = f
      BY <1>8, <2>2 DEF Ends, OneFilePerEnd
    <3>. QED
      BY <1>10, <3>1
  <2>9. EndIsOpen'
    <3>1. ASSUME NEW x \in Page, NEW h \in File
          PROVE  /\ IsEnd(h, x, TRUE)' => pipe'[x] # NONE /\ pipe'[x].writeopen
                 /\ IsEnd(h, x, FALSE)' => pipe'[x] # NONE /\ pipe'[x].readopen
      <4>0. /\ IsEnd(h, x, TRUE)' => IsEnd(h, x, TRUE)
            /\ IsEnd(h, x, FALSE)' => IsEnd(h, x, FALSE)
        BY <1>10
      <4>4. /\ IsEnd(h, x, TRUE) => pipe[x] # NONE /\ pipe[x].writeopen
            /\ IsEnd(h, x, FALSE) => pipe[x] # NONE /\ pipe[x].readopen
        BY DEF Ends, EndIsOpen
      <4>1. CASE x # g
        BY <2>6, <4>0, <4>1, <4>4
      <4>2. CASE x = g /\ w = TRUE
        <5>1. ~IsEnd(h, x, TRUE)'
          BY <2>8, <4>2
        <5>. QED
          BY <2>4, <2>5, <2>6, <4>0, <4>2, <4>4, <5>1
      <4>3. CASE x = g /\ w = FALSE
        <5>1. ~IsEnd(h, x, FALSE)'
          BY <2>8, <4>3
        <5>. QED
          BY <2>4, <2>5, <2>6, <4>0, <4>3, <4>4, <5>1
      <4>. QED
        BY <2>2, <4>1, <4>2, <4>3
    <3>. QED
      BY <3>1 DEF EndIsOpen
  <2>10. OneFilePerEnd'
    BY <1>10 DEF Ends, OneFilePerEnd
  <2>11. OpenHasEnd'
    <3>1. ASSUME NEW x \in Page, pipe'[x] # NONE
          PROVE  /\ pipe'[x].readopen \/ pipe'[x].writeopen
                 /\ pipe'[x].readopen => \E h \in File : IsEnd(h, x, FALSE)'
                 /\ pipe'[x].writeopen => \E h \in File : IsEnd(h, x, TRUE)'
      <4>1. CASE x # g
        <5>1. \A h \in File : \A v : IsEnd(h, x, v) => h # f
          BY <2>2, <4>1 DEF IsEnd
        <5>. QED
          BY <1>10, <2>6, <3>1, <4>1, <5>1 DEF Ends, OpenHasEnd
      <4>2. CASE x = g
        <5>1. pipe'[g] = ends /\ (ends.readopen \/ ends.writeopen)
          BY <2>6, <3>1, <4>2
        <5>2. \A h \in File, v \in BOOLEAN : v # w /\ IsEnd(h, g, v) => h # f
          BY <2>2 DEF IsEnd
        <5>3. CASE w = TRUE
          <6>1. ends.readopen /\ pipe[g].readopen /\ ~ends.writeopen
            BY <2>4, <5>1, <5>3
          <6>2. \E h \in File : IsEnd(h, g, FALSE)
            BY <2>2, <2>3, <6>1 DEF Ends, OpenHasEnd
          <6>. QED
            BY <1>10, <4>2, <5>1, <5>2, <5>3, <6>1, <6>2
        <5>4. CASE w = FALSE
          <6>1. ends.writeopen /\ pipe[g].writeopen /\ ~ends.readopen
            BY <2>4, <5>1, <5>4
          <6>2. \E h \in File : IsEnd(h, g, TRUE)
            BY <2>2, <2>3, <6>1 DEF Ends, OpenHasEnd
          <6>. QED
            BY <1>10, <4>2, <5>1, <5>2, <5>4, <6>1, <6>2
        <5>. QED
          BY <2>2, <5>3, <5>4
      <4>. QED
        BY <4>1, <4>2
    <3>. QED
      BY <3>1 DEF OpenHasEnd
  <2>12. InodeFiles' = InodeFiles
    BY <1>1, <1>9, <1>12 DEF InodeFiles
  <2>. QED
    BY <1>3, <1>4, <1>7, <1>11, <2>1, <2>7, <2>9, <2>10, <2>11, <2>12 DEF Ends, Inodes
<1>13. CASE file[f].type # "FD_PIPE"
  <2>1. pipe' = pipe /\ \A g \in Page : \A w : ~IsEnd(f, g, w)
    <3>1. file[f].page = NONE
      BY <1>8, <1>13 DEF Ends, HasPage
    <3>. QED
      BY <1>8, <1>13, <3>1, FileAssumption DEF FilecloseObject, IsEnd
  <2>2. \A h \in File, g \in Page : \A w : IsEnd(h, g, w)' <=> IsEnd(h, g, w)
    BY <1>10, <2>1
  <2>3. \A h \in File, g \in Page, w \in BOOLEAN : IsEnd(h, g, w)' <=> IsEnd(h, g, w)
    BY <2>2
  <2>4. EndIsOpen' /\ OneFilePerEnd' /\ OpenHasEnd'
    BY <2>1, <2>3, EndsKept DEF Ends
  <2>5. Inodes' /\ iref' \in Nat
    <3>1. IsFiniteSet(InodeFiles) /\ Cardinality(InodeFiles) \in Nat
      BY FileAssumption, FS_Subset, FS_CardinalityType DEF InodeFiles
    <3>2. CASE file[f].type = "FD_INODE"
      <4>1. iref' = iref - 1
        BY <1>8, <1>13, <3>2 DEF FilecloseObject
      <4>2. f \in InodeFiles /\ InodeFiles' = InodeFiles \ {f}
        BY <1>1, <1>8, <1>9, <3>2 DEF InodeFiles
      <4>3. Cardinality(InodeFiles \ {f}) = Cardinality(InodeFiles) - 1
        BY <3>1, <4>2, FS_RemoveElement
      <4>4. IsFiniteSet(InodeFiles \ {f}) /\ Cardinality(InodeFiles \ {f}) \in Nat
        BY <3>1, <4>2, FS_RemoveElement, FS_CardinalityType
      <4>. QED
        BY <4>1, <4>2, <4>3, <4>4 DEF Inodes
    <3>3. CASE file[f].type # "FD_INODE"
      <4>1. iref' = iref
        BY <1>8, <1>13, <3>3 DEF FilecloseObject
      <4>2. InodeFiles' = InodeFiles
        BY <1>1, <1>9, <3>3 DEF InodeFiles
      <4>. QED
        BY <4>1, <4>2 DEF Inodes, FileTypes
    <3>. QED
      BY <3>2, <3>3
  <2>6. FileTypes'
    BY <1>1, <2>1, <2>5 DEF FileTypes, FilePcs
  <2>. QED
    BY <1>3, <1>4, <1>7, <1>11, <2>3, <2>4, <2>5, <2>6 DEF Ends
<1>. QED
  BY <1>12, <1>13
\* bd_free(f).
LEMMA StepCloseFree ==
  ASSUME FileInv, NEW p \in Proc, FilecloseFree(p)
  PROVE  FileInv'
<1>. USE DEF FileInv
<1>1. /\ pc[p] = "free" /\ ~Panicked /\ Closed(p) /\ file' = [file EXCEPT ![Last(p)] = NONE]
      /\ UNCHANGED <<pipe, iref, ofile, child, next, using>>
  BY DEF FilecloseFree, At, Panicked
<1>2. PICK f \in File, cl \in Seq(File) :
        /\ f = Last(p) /\ cl = closing[p] /\ Len(cl) \in {1, 2}
        /\ file[f] # NONE /\ file[f].ref = 0
  <2>1. closing[p] \in Seq(File) /\ Len(closing[p]) \in {1, 2} /\ Last(p) \in File
    BY <1>1, LastIsFile
  <2>2. file[Last(p)] # NONE /\ file[Last(p)].ref = 0
    BY <1>1 DEF OneCloser, Finishing
  <2>. QED
    BY <2>1, <2>2
<1>3. /\ \A q \in Proc : q # p => closing'[q] = closing[q] /\ pc'[q] = pc[q]
      /\ closing'[p] = Tail(cl) /\ pc'[p] \in {"close", "exit", "user"}
      /\ Tail(cl) # <<>> => pc'[p] = "close"
      /\ closing' \in [Proc -> Seq(File)] /\ pc' \in [Proc -> FilePcs]
  BY <1>1, <1>2, ClosedFacts
<1>4. Loops' /\ Using' /\ Forks'
  BY <1>1, ClosedLoops
<1>5. \A h \in File : file'[h] = IF h = f THEN NONE ELSE file[h]
  BY <1>1, <1>2 DEF FileTypes
<1>6. FileTypes'
  BY <1>1, <1>2, <1>3 DEF FileTypes
<1>7. \A h \in File : Refs(h)' = Refs(h)
  <2>1. PICK v, fds : v = pc'[p] /\ fds = ofile[p] /\ (Tail(cl) # <<>> => v = "close")
    BY <1>3
  <2>0. "free" # "close"
    OBVIOUS
  <2>2. PICK w : w = "free" /\ w # "close"
    BY <2>0
  <2>3. HeldBy(fds, Tail(cl), v, CloseSlot(cl)) = NONE
    BY ZenonT(30), <1>2, <2>1, RowTail
  <2>4. \A k \in Slot : k # CloseSlot(cl) =>
          HeldBy(fds, Tail(cl), v, k) = HeldBy(fds, cl, "close", k)
    <3>1. Len(cl) \in {1, 2} /\ (Tail(cl) # <<>> => v = "close")
      BY <1>2, <2>1
    <3>. QED
      BY <3>1, RowTail
  <2>5. HeldBy(fds, cl, w, CloseSlot(cl)) = NONE
    BY <1>2, <2>2, RowLeft
  <2>6. \A k \in Slot : k # CloseSlot(cl) => HeldBy(fds, cl, "close", k) = HeldBy(fds, cl, w, k)
    BY <1>2, RowLeft
  <2>7. \A k \in Slot : HeldBy(fds, Tail(cl), v, k) = HeldBy(fds, cl, w, k)
    BY <2>3, <2>4, <2>5, <2>6
  <2>8. ofile' = ofile /\ closing[p] = cl /\ closing'[p] = Tail(cl) /\ pc[p] = w
    BY <1>1, <1>2, <1>3, <2>2
  <2>9. \A q \in Proc : \A k \in Slot :
          HeldBy(ofile'[q], closing'[q], pc'[q], k) = HeldBy(ofile[q], closing[q], pc[q], k)
    BY <1>3, <2>1, <2>7, <2>8
  <2>. QED
    BY <2>9, RefsKept
<1>8. Counted'
  <2>1. \A h \in File : IF file[h] = NONE THEN Refs(h) = 0 ELSE file[h].ref = Refs(h)
    BY <1>1, RefExact
  <2>2. \A h \in File : IF file'[h] = NONE THEN Refs(h)' = 0 ELSE file'[h].ref = Refs(h)'
    BY <1>2, <1>5, <1>7, <2>1
  <2>. QED
    BY <2>2 DEF Counted
<1>9. /\ \A q \in Proc : Finishing(q)' <=> (Finishing(q) /\ q # p)
      /\ \A q \in Proc : Finishing(q) /\ q # p => Last(q)' = Last(q) /\ Last(q) \in File /\ Last(q) # f
  <2>1. \A q \in Proc : Finishing(q)' <=> (Finishing(q) /\ q # p)
    BY <1>3 DEF Finishing
  <2>2. \A q \in Proc : Finishing(q) => Last(q) \in File
    BY LastIsFile DEF Finishing
  <2>3. \A q \in Proc : Finishing(q) /\ q # p => Last(q) # f
    BY <1>1, <1>2 DEF OneCloser, Finishing
  <2>4. \A q \in Proc : q # p => Last(q)' = Last(q)
    BY <1>3 DEF Last
  <2>. QED
    BY <2>1, <2>2, <2>3, <2>4
<1>10. OneCloser'
  <2>1. \A q \in Proc : Finishing(q)' => file'[Last(q)'] # NONE /\ file'[Last(q)'].ref = 0
    BY <1>5, <1>9 DEF OneCloser
  <2>2. \A q, r \in Proc : Finishing(q)' /\ Finishing(r)' /\ Last(q)' = Last(r)' => q = r
    BY <1>9 DEF OneCloser
  <2>3. ASSUME NEW h \in File, file'[h] # NONE, file'[h].ref = 0
        PROVE  \E q \in Proc : Finishing(q)' /\ Last(q)' = h
    <3>1. h # f /\ file[h] # NONE /\ file[h].ref = 0
      BY <1>5, <2>3
    <3>2. PICK q \in Proc : Finishing(q) /\ Last(q) = h
      BY <3>1 DEF OneCloser
    <3>. QED
      BY <1>2, <1>9, <3>1, <3>2
  <2>. QED
    BY <2>1, <2>2, <2>3 DEF OneCloser
<1>11. \A h \in File : Holds(h)' <=> Holds(h)
  <2>1. \A q \in Proc : pc'[q] = "free" <=> (pc[q] = "free" /\ q # p)
    BY <1>3
  <2>2. \A q \in Proc : pc[q] = "free" /\ q # p => Last(q)' = Last(q) /\ Last(q) # f
    BY <1>9 DEF Finishing
  <2>3. ~Holds(f) /\ ~Holds(f)'
    BY <1>1, <1>2, <1>5 DEF Holds
  <2>4. ASSUME NEW h \in File, h # f PROVE Holds(h)' <=> Holds(h)
    BY <1>2, <1>5, <2>1, <2>2, <2>4 DEF Holds
  <2>. QED
    BY <2>3, <2>4
<1>12. ~Holds(f)
  BY <1>1, <1>2 DEF Holds
<1>13. HasPage'
  BY <1>5 DEF Ends, HasPage
<1>14. \A h \in File, g \in Page, w \in BOOLEAN : IsEnd(h, g, w)' <=> IsEnd(h, g, w)
  BY <1>5, <1>11, <1>12 DEF IsEnd
<1>15. EndIsOpen' /\ OneFilePerEnd' /\ OpenHasEnd'
  BY <1>1, <1>14, EndsKept DEF Ends
<1>16. InodeFiles' = InodeFiles
  BY <1>5, <1>11, <1>12 DEF InodeFiles
<1>. QED
  BY <1>1, <1>4, <1>6, <1>8, <1>10, <1>13, <1>15, <1>16 DEF Ends, Inodes

-----------------------------------------------------------------------------
(* The initial state, and what the invariant says *)

\* No file is open at first.
LEMMA FileInit == Init => FileInv
<1>. SUFFICES ASSUME Init PROVE FileInv
  OBVIOUS
<1>1. \A p \in Proc : /\ pc[p] \in {"user", "unused"} /\ closing[p] = <<>> /\ next[p] = 0
                      /\ using[p] = NONE /\ child[p] = NONE
                      /\ \A fd \in Fd : ofile[p][fd] = NONE
  BY DEF Init
<1>2. <<>> \in Seq(File) /\ Len(<<>>) = 0 /\ 0 \in 0..NOFILE /\ ~(0 > 0) /\ 0 <= 2
  BY FileSizes
<1>3. FileTypes
  BY <1>2 DEF Init, FileTypes, FilePcs
<1>4. Loops
  BY <1>1, <1>2 DEF Loops
<1>5. Using /\ Forks
  BY <1>1 DEF Using, Forks
<1>6. \A f \in File : file[f] = NONE
  BY DEF Init
<1>7. Counted
  <2>1. \A q \in Proc, k \in Slot : HeldBy(ofile[q], closing[q], pc[q], k) = NONE
    <3>1. ASSUME NEW q \in Proc PROVE \A k \in Slot : HeldBy(ofile[q], closing[q], pc[q], k) = NONE
      <4>1. Len(closing[q]) = 0 /\ Len(closing[q]) \in Nat
        BY <1>1, <1>2
      <4>2. /\ HeldBy(ofile[q], closing[q], pc[q], NOFILE) = NONE
            /\ HeldBy(ofile[q], closing[q], pc[q], NOFILE + 1) = NONE
        BY <4>1, HeldIs
      <4>3. \A k \in Fd : HeldBy(ofile[q], closing[q], pc[q], k) = NONE
        BY <1>1, FdHolds
      <4>. QED
        BY <4>2, <4>3, FileSizes
    <3>. QED
      BY <3>1
  <2>2. \A e \in Place : Held[e] = NONE
    <3>1. \A e \in Place : e = <<e[1], e[2]>> /\ e[1] \in Proc /\ e[2] \in Slot
      BY DEF Place
    <3>. QED
      BY <2>1, <3>1, HeldRows
  <2>3. ASSUME NEW f \in File PROVE Refs(f) = 0
    <3>1. {e \in Place : Held[e] = f} = {}
      BY <2>2, FileAssumption
    <3>. QED
      BY <3>1, FS_EmptySet DEF Refs
  <2>. QED
    BY <1>6, <2>3 DEF Counted
<1>8. OneCloser
  BY <1>1, <1>6 DEF OneCloser, Finishing
<1>9. Ends
  <2>1. \A f \in File : ~Holds(f)
    BY <1>6 DEF Holds
  <2>2. \A g \in Page : pipe[g] = NONE
    BY DEF Init
  <2>. QED
    BY <1>6, <2>1, <2>2 DEF Ends, HasPage, EndIsOpen, OneFilePerEnd, OpenHasEnd, IsEnd
<1>10. Inodes
  <2>1. InodeFiles = {}
    BY <1>6 DEF InodeFiles, Holds
  <2>. QED
    BY <2>1, FS_EmptySet DEF Inodes, Init
<1>. QED
  BY <1>3, <1>4, <1>5, <1>7, <1>8, <1>9, <1>10 DEF FileInv

\* A set with a member, and no other, has one element.
LEMMA OnlyOne ==
  ASSUME NEW S, NEW x, x \in S, \A y \in S : y = x
  PROVE  Cardinality(S) = 1
<1>1. S = {x}
  OBVIOUS
<1>. QED
  BY <1>1, FS_Singleton

\* FileInv says what RefsMatch counts.
LEMMA InvMatches == FileInv => RefsMatch
<1>. SUFFICES ASSUME FileInv PROVE RefsMatch
  OBVIOUS
<1>. USE DEF FileInv
<1>1. ASSUME \A p \in Proc : pc[p] # "panic", NEW f \in File
      PROVE  IF file[f] = NONE THEN Refs(f) = 0
             ELSE /\ file[f].ref = Refs(f)
                  /\ file[f].ref = 0 <=>
                       Cardinality({p \in Proc : pc[p] \in {"put", "free"} /\ Last(p) = f}) = 1
  <2>. DEFINE C == {p \in Proc : pc[p] \in {"put", "free"} /\ Last(p) = f}
  <2>1. IF file[f] = NONE THEN Refs(f) = 0 ELSE file[f].ref = Refs(f)
    BY <1>1, RefExact DEF Panicked
  <2>2. \A p \in C : p \in Proc /\ Finishing(p) /\ Last(p) = f
    BY DEF Finishing
  <2>3. \A p \in Proc : Finishing(p) /\ Last(p) = f => p \in C
    BY DEF Finishing
  <2>. HIDE DEF C
  <2>4. ASSUME file[f] # NONE, file[f].ref = 0 PROVE Cardinality(C) = 1
    <3>1. PICK p \in Proc : Finishing(p) /\ Last(p) = f
      BY <2>4 DEF OneCloser
    <3>2. p \in C
      BY <2>3, <3>1
    <3>3. \A q \in C : q = p
      BY <2>2, <3>1 DEF OneCloser
    <3>. QED
      BY <3>2, <3>3, OnlyOne
  <2>5. ASSUME file[f] # NONE, file[f].ref # 0 PROVE Cardinality(C) # 1
    <3>1. \A p : p \notin C
      BY <2>2, <2>5 DEF OneCloser
    <3>2. C = {}
      BY <3>1
    <3>3. Cardinality(C) = 0
      BY <3>2, FS_EmptySet
    <3>. QED
      BY <3>3
  <2>6. file[f] # NONE => (file[f].ref = 0 <=> Cardinality(C) = 1)
    BY <2>4, <2>5
  <2>. QED
    BY <2>1, <2>6 DEF C
<1>2. ASSUME NEW g \in Page, NEW w \in BOOLEAN, NEW E,
             E = {f \in File : Holds(f) /\ file[f].page = g /\ file[f].writable = w}
      PROVE  /\ \A f \in E : f \in File /\ IsEnd(f, g, w)
             /\ (\E f \in File : IsEnd(f, g, w)) => Cardinality(E) = 1
             /\ (\A f \in File : ~IsEnd(f, g, w)) => E = {} /\ Cardinality(E) # 1
  <2>1. \A f \in E : f \in File /\ IsEnd(f, g, w)
    BY <1>2 DEF IsEnd
  <2>2. \A f \in File : IsEnd(f, g, w) => f \in E
    BY <1>2 DEF IsEnd
  <2>3. ASSUME NEW f \in File, IsEnd(f, g, w) PROVE Cardinality(E) = 1
    <3>1. f \in E /\ \A h \in E : h = f
      BY <2>1, <2>2, <2>3 DEF Ends, OneFilePerEnd
    <3>. QED
      BY <3>1, OnlyOne
  <2>4. ASSUME \A f \in File : ~IsEnd(f, g, w) PROVE E = {} /\ Cardinality(E) # 1
    <3>1. \A f : f \notin E
      BY <2>1, <2>4
    <3>2. E = {}
      BY <3>1
    <3>3. Cardinality(E) = 0
      BY <3>2, FS_EmptySet
    <3>. QED
      BY <3>2, <3>3
  <2>. QED
    BY <2>1, <2>3, <2>4
<1>3. ASSUME NEW g \in Page
      PROVE  LET ends(w) == {f \in File : Holds(f) /\ file[f].page = g /\ file[f].writable = w}
             IN  IF pipe[g] = NONE THEN ends(TRUE) \cup ends(FALSE) = {}
                 ELSE /\ pipe[g].readopen <=> Cardinality(ends(FALSE)) = 1
                      /\ pipe[g].writeopen <=> Cardinality(ends(TRUE)) = 1
  <2>. DEFINE W == {f \in File : Holds(f) /\ file[f].page = g /\ file[f].writable = TRUE}
              R == {f \in File : Holds(f) /\ file[f].page = g /\ file[f].writable = FALSE}
  <2>1. /\ (\E f \in File : IsEnd(f, g, TRUE)) => Cardinality(W) = 1
        /\ (\A f \in File : ~IsEnd(f, g, TRUE)) => W = {} /\ Cardinality(W) # 1
    BY <1>2
  <2>2. /\ (\E f \in File : IsEnd(f, g, FALSE)) => Cardinality(R) = 1
        /\ (\A f \in File : ~IsEnd(f, g, FALSE)) => R = {} /\ Cardinality(R) # 1
    BY <1>2
  <2>. HIDE DEF W, R
  <2>3. CASE pipe[g] = NONE
    <3>1. \A f \in File : ~IsEnd(f, g, TRUE) /\ ~IsEnd(f, g, FALSE)
      BY <2>3 DEF Ends, EndIsOpen
    <3>2. W = {} /\ R = {}
      BY <2>1, <2>2, <3>1
    <3>. QED
      BY <2>3, <3>2 DEF W, R
  <2>4. CASE pipe[g] # NONE
    <3>1. pipe[g].readopen <=> Cardinality(R) = 1
      BY <2>2, <2>4 DEF Ends, EndIsOpen, OpenHasEnd
    <3>2. pipe[g].writeopen <=> Cardinality(W) = 1
      BY <2>1, <2>4 DEF Ends, EndIsOpen, OpenHasEnd
    <3>. QED
      BY <2>4, <3>1, <3>2 DEF W, R
  <2>. QED
    BY <2>3, <2>4
<1>4. iref = Cardinality({f \in File : Holds(f) /\ file[f].type = "FD_INODE"})
  BY DEF Inodes, InodeFiles
<1>. QED
  BY <1>1, <1>3, <1>4 DEF RefsMatch
=============================================================================
