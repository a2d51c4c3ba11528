-------------------------------- MODULE File --------------------------------
(***************************************************************************)
(* Open files: struct file objects from the buddy allocator, shared by the *)
(* descriptor tables of processes (file.c, and open, dup, close, pipe of   *)
(* sysfile.c, with what fork and exit do to descriptors).  A section under *)
(* f->lock is one step; a process changes its own descriptor table only.   *)
(***************************************************************************)
EXTENDS Naturals, Sequences, FiniteSets

CONSTANTS Proc,
          NOFILE,
          File,      \* blocks of memory for struct file
          Page,      \* pages for pipes
          init,      \* the process that runs first
          NONE

Fd == 0..(NOFILE - 1)

\* The fields of a struct file, and those of a struct pipe that files decide on.
StructFile == [ref : Nat, type : {"FD_NONE", "FD_PIPE", "FD_INODE"},
               page : Page \union {NONE}, writable : BOOLEAN]
StructPipe == [readopen : BOOLEAN, writeopen : BOOLEAN]

ASSUME FileAssumption ==
  /\ NOFILE \in Nat \ {0}
  /\ init \in Proc
  /\ IsFiniteSet(Proc) /\ IsFiniteSet(File)
  /\ NONE \notin Proc \cup File \cup Page \cup StructFile \cup StructPipe

VARIABLES
  file,      \* contents of each block: NONE, or a struct file
  pipe,      \* NONE, or readopen and writeopen of the pipe on a page
  iref,      \* references to inodes that open files hold
  ofile,     \* descriptor tables
  pc,        \* where each process is
  child,     \* np of a process in fork
  next,      \* fd of the loops of fork and exit
  closing,   \* files that a process is closing, the first one now
  using      \* the file of a process inside fileread, filewrite or filestat

vars == <<file, pipe, iref, ofile, pc, child, next, closing, using>>

Init ==
  /\ file = [f \in File |-> NONE]
  /\ pipe = [g \in Page |-> NONE]
  /\ iref = 0
  /\ ofile = [p \in Proc |-> [fd \in Fd |-> NONE]]
  /\ pc = [p \in Proc |-> IF p = init THEN "user" ELSE "unused"]
  /\ child = [p \in Proc |-> NONE]
  /\ next = [p \in Proc |-> 0]
  /\ closing = [p \in Proc |-> <<>>]
  /\ using = [p \in Proc |-> NONE]

Goto(p, where) == pc' = [pc EXCEPT ![p] = where]

\* The system runs until a panic.
At(p, where) == pc[p] = where /\ \A q \in Proc : pc[q] # "panic"

FreeFiles == {f \in File : file[f] = NONE}
FreeFd(p) == {fd \in Fd : ofile[p][fd] = NONE}

\* The fd that fdalloc returns.
fdalloc(p, fd) == fd \in FreeFd(p) /\ \A e \in FreeFd(p) : fd <= e

\* Contents of a file: type and the object it refers to.
Inode == [ref |-> 1, type |-> "FD_INODE", page |-> NONE, writable |-> FALSE]
End(g, w) == [ref |-> 1, type |-> "FD_PIPE", page |-> g, writable |-> w]

-----------------------------------------------------------------------------
\* filealloc clears the block that bd_malloc returns before anything tests
\* it: with no memory left that is a write through a null pointer.
FileallocNull(p) ==
  /\ At(p, "user")
  /\ FreeFiles = {}
  /\ Goto(p, "panic")
  /\ UNCHANGED <<file, pipe, iref, ofile, child, next, closing, using>>

\* sys_open, or the failure of its fdalloc, which closes the new file again.
sys_open(p) ==
  /\ At(p, "user")
  /\ \E f \in FreeFiles :
       \/ \E fd \in Fd :
            /\ fdalloc(p, fd)
            /\ file' = [file EXCEPT ![f] = Inode]
            /\ ofile' = [ofile EXCEPT ![p][fd] = f]
            /\ iref' = iref + 1
            /\ UNCHANGED <<pc, closing>>
       \/ /\ FreeFd(p) = {}
          /\ file' = [file EXCEPT ![f] = [Inode EXCEPT !.type = "FD_NONE"]]
          /\ closing' = [closing EXCEPT ![p] = <<f>>]
          /\ Goto(p, "close")
          /\ UNCHANGED <<ofile, iref>>
  /\ UNCHANGED <<pipe, child, next, using>>

\* Mutant of Dup: the new descriptor is not counted.
DupUncounted(f) == UNCHANGED file

\* filedup under f->lock.
Dup(f) == file' = [file EXCEPT ![f].ref = @ + 1]

sys_dup(p) ==
  /\ At(p, "user")
  /\ \E old, fd \in Fd :
       /\ ofile[p][old] # NONE /\ fdalloc(p, fd)
       /\ ofile' = [ofile EXCEPT ![p][fd] = ofile[p][old]]
       /\ Dup(ofile[p][old])
  /\ UNCHANGED <<pipe, iref, pc, child, next, closing, using>>

sys_close(p) ==
  /\ At(p, "user")
  /\ \E fd \in Fd :
       /\ ofile[p][fd] # NONE
       /\ ofile' = [ofile EXCEPT ![p][fd] = NONE]
       /\ closing' = [closing EXCEPT ![p] = <<ofile[p][fd]>>]
  /\ Goto(p, "close")
  /\ UNCHANGED <<file, pipe, iref, child, next, using>>

\* sys_pipe: both files and the page are there.  fdalloc or copyout may fail;
\* the descriptors are cleared and both files closed.
sys_pipe(p) ==
  /\ At(p, "user")
  /\ \E rf, wf \in FreeFiles, g \in Page :
       /\ rf # wf /\ pipe[g] = NONE
       /\ file' = [file EXCEPT ![rf] = End(g, FALSE), ![wf] = End(g, TRUE)]
       /\ pipe' = [pipe EXCEPT ![g] = [readopen |-> TRUE, writeopen |-> TRUE]]
       /\ \/ \E fd0 \in FreeFd(p), fd1 \in FreeFd(p) :
               /\ fd0 < fd1
               /\ \A e \in FreeFd(p) : e \in {fd0, fd1} \/ e > fd1
               /\ ofile' = [ofile EXCEPT ![p][fd0] = rf, ![p][fd1] = wf]
               /\ UNCHANGED <<pc, closing>>
          \/ /\ closing' = [closing EXCEPT ![p] = <<rf, wf>>]
             /\ Goto(p, "close")
             /\ UNCHANGED ofile
  /\ UNCHANGED <<iref, child, next, using>>

\* pipealloc gets one file or two but no page, and closes what it has.
\* With one file the second filealloc writes through a null pointer.
PipeallocFails(p) ==
  /\ At(p, "user")
  /\ \/ \E rf, wf \in FreeFiles :
          /\ rf # wf
          /\ \A g \in Page : pipe[g] # NONE
          /\ file' = [f \in File |-> IF f \in {rf, wf}
                                       THEN [Inode EXCEPT !.type = "FD_NONE"] ELSE file[f]]
          /\ closing' = [closing EXCEPT ![p] = <<rf, wf>>]
          /\ Goto(p, "close")
     \/ \E rf \in FreeFiles :
          /\ FreeFiles = {rf}
          /\ file' = [file EXCEPT ![rf] = [Inode EXCEPT !.type = "FD_NONE"]]
          /\ Goto(p, "panic")
          /\ UNCHANGED closing
  /\ UNCHANGED <<pipe, iref, ofile, child, next, using>>

-----------------------------------------------------------------------------
(* fileclose of Head(closing[p]) *)

Last(p) == Head(closing[p])

\* Where p goes when it has closed a file.
Closed(p) ==
  /\ closing' = [closing EXCEPT ![p] = Tail(@)]
  /\ Goto(p, CASE Tail(closing[p]) # <<>> -> "close"
               [] Tail(closing[p]) = <<>> /\ next[p] > 0 -> "exit"
               [] OTHER -> "user")

\* --f->ref > 0: another reference is left.
fileclose(p) ==
  /\ At(p, "close")
  /\ file[Last(p)].ref > 1
  /\ file' = [file EXCEPT ![Last(p)].ref = @ - 1]
  /\ Closed(p)
  /\ UNCHANGED <<pipe, iref, ofile, child, next, using>>

\* The last reference is gone; f->lock is released before the rest.
FilecloseLast(p) ==
  /\ At(p, "close")
  /\ file[Last(p)].ref = 1
  /\ file' = [file EXCEPT ![Last(p)].ref = 0]
  /\ Goto(p, "put")
  /\ UNCHANGED <<pipe, iref, ofile, child, next, closing, using>>

\* pipeclose, or iput inside a transaction.
FilecloseObject(p) ==
  /\ At(p, "put")
  /\ LET f == file[Last(p)] IN
       \/ /\ f.type = "FD_PIPE"
          /\ LET ends == IF f.writable THEN [pipe[f.page] EXCEPT !.writeopen = FALSE]
                                       ELSE [pipe[f.page] EXCEPT !.readopen = FALSE]
             IN  pipe' = [pipe EXCEPT ![f.page] =
                            IF ends.readopen \/ ends.writeopen THEN ends ELSE NONE]
          /\ UNCHANGED iref
       \/ /\ f.type = "FD_INODE"
          /\ iref' = iref - 1
          /\ UNCHANGED pipe
       \/ /\ f.type = "FD_NONE"
          /\ UNCHANGED <<pipe, iref>>
  /\ Goto(p, "free")
  /\ UNCHANGED <<file, ofile, child, next, closing, using>>

\* bd_free(f)
FilecloseFree(p) ==
  /\ At(p, "free")
  /\ file' = [file EXCEPT ![Last(p)] = NONE]
  /\ Closed(p)
  /\ UNCHANGED <<pipe, iref, ofile, child, next, using>>

-----------------------------------------------------------------------------
(* fileread, filewrite and filestat work on the file of a descriptor *)

Use(p) ==
  /\ At(p, "user")
  /\ \E fd \in Fd : ofile[p][fd] # NONE /\ using' = [using EXCEPT ![p] = ofile[p][fd]]
  /\ Goto(p, "using")
  /\ UNCHANGED <<file, pipe, iref, ofile, child, next, closing>>

Used(p) ==
  /\ At(p, "using")
  /\ using' = [using EXCEPT ![p] = NONE]
  /\ Goto(p, "user")
  /\ UNCHANGED <<file, pipe, iref, ofile, child, next, closing>>

-----------------------------------------------------------------------------
(* fork and exit *)

fork(p) ==
  /\ At(p, "user")
  /\ \E q \in Proc :
       /\ pc[q] = "unused"
       /\ child' = [child EXCEPT ![p] = q]
       /\ pc' = [pc EXCEPT ![p] = "fork", ![q] = "used"]
  /\ next' = [next EXCEPT ![p] = 0]
  /\ UNCHANGED <<file, pipe, iref, ofile, closing, using>>

\* Mutant of ForkDup: the child's descriptors are copied, not duplicated.
ForkCopy(p) ==
  /\ At(p, "fork")
  /\ ofile' = [ofile EXCEPT ![child[p]] = ofile[p]]
  /\ pc' = [pc EXCEPT ![p] = "user", ![child[p]] = "user"]
  /\ child' = [child EXCEPT ![p] = NONE]
  /\ UNCHANGED <<file, pipe, iref, next, closing, using>>

\* One iteration of the loop over ofile; then the child may run.
ForkDup(p) ==
  /\ At(p, "fork")
  /\ \/ /\ next[p] < NOFILE
        /\ IF ofile[p][next[p]] = NONE
             THEN UNCHANGED <<file, ofile>>
             ELSE /\ Dup(ofile[p][next[p]])
                  /\ ofile' = [ofile EXCEPT ![child[p]][next[p]] = ofile[p][next[p]]]
        /\ next' = [next EXCEPT ![p] = @ + 1]
        /\ UNCHANGED <<pc, child>>
     \/ /\ next[p] = NOFILE
        /\ pc' = [pc EXCEPT ![p] = "user", ![child[p]] = "user"]
        /\ child' = [child EXCEPT ![p] = NONE]
        /\ next' = [next EXCEPT ![p] = 0]
        /\ UNCHANGED <<file, ofile>>
  /\ UNCHANGED <<pipe, iref, closing, using>>

\* The first process does not exit.
exit(p) ==
  /\ At(p, "user") /\ p # init
  /\ Goto(p, "exit")
  /\ UNCHANGED <<file, pipe, iref, ofile, child, next, closing, using>>

\* One iteration of the loop over ofile; then the slot is a zombie's, and free
\* again once the parent has waited.
ExitClose(p) ==
  /\ At(p, "exit")
  /\ \/ /\ next[p] < NOFILE
        /\ next' = [next EXCEPT ![p] = @ + 1]
        /\ IF ofile[p][next[p]] = NONE
             THEN UNCHANGED <<ofile, closing, pc>>
             ELSE /\ closing' = [closing EXCEPT ![p] = <<ofile[p][next[p]]>>]
                  /\ ofile' = [ofile EXCEPT ![p][next[p]] = NONE]
                  /\ Goto(p, "close")
     \/ /\ next[p] = NOFILE
        /\ next' = [next EXCEPT ![p] = 0]
        /\ Goto(p, "unused")
        /\ UNCHANGED <<ofile, closing>>
  /\ UNCHANGED <<file, pipe, iref, child, using>>

-----------------------------------------------------------------------------
Next ==
  \E p \in Proc :
    \/ FileallocNull(p) \/ sys_open(p) \/ sys_dup(p) \/ sys_close(p)
    \/ sys_pipe(p) \/ PipeallocFails(p)
    \/ fileclose(p) \/ FilecloseLast(p) \/ FilecloseObject(p) \/ FilecloseFree(p)
    \/ Use(p) \/ Used(p)
    \/ fork(p) \/ ForkDup(p) \/ exit(p) \/ ExitClose(p)

Spec == Init /\ [][Next]_vars

-----------------------------------------------------------------------------
\* Where a reference to a file can be: the descriptors of a process and, from
\* NOFILE on, the closes it has still to make, counted from the last one.
Slot == 0..(NOFILE + 1)
Place == Proc \X Slot

\* The reference that a process has at place n, given its descriptors, its
\* closes and where it is.  The close under way gives its own up first.
HeldBy(fds, closes, where, n) ==
  LET i == NOFILE + Len(closes) - n
  IN  IF n < NOFILE THEN fds[n]
      ELSE IF i > 1 \/ (i = 1 /\ where = "close") THEN closes[i] ELSE NONE

Held == [e \in Place |-> HeldBy(ofile[e[1]], closing[e[1]], pc[e[1]], e[2])]

Refs(f) == Cardinality({e \in Place : Held[e] = f})

\* The file has not yet given up its pipe or inode.
Holds(f) == file[f] # NONE /\ ~\E p \in Proc : pc[p] = "free" /\ Last(p) = f

\* f->ref is the number of references, through any interleaving of dup, fork,
\* close and exit in several processes; a free block has none, and a file
\* with none is being closed by exactly one process.  So are the objects behind
\* files: an end of a pipe is open exactly while some file for it is not closed,
\* the page is free when both ends are closed, and every reference to an inode
\* belongs to a file.
RefsMatch ==
  /\ (\A p \in Proc : pc[p] # "panic") =>
       \A f \in File :
         IF file[f] = NONE THEN Refs(f) = 0
         ELSE /\ file[f].ref = Refs(f)
              /\ file[f].ref = 0 <=>
                   Cardinality({p \in Proc : pc[p] \in {"put", "free"} /\ Last(p) = f}) = 1
  /\ \A g \in Page :
       LET ends(w) == {f \in File : Holds(f) /\ file[f].page = g /\ file[f].writable = w}
       IN  IF pipe[g] = NONE THEN ends(TRUE) \cup ends(FALSE) = {}
           ELSE /\ pipe[g].readopen <=> Cardinality(ends(FALSE)) = 1
                /\ pipe[g].writeopen <=> Cardinality(ends(TRUE)) = 1
  /\ iref = Cardinality({f \in File : Holds(f) /\ file[f].type = "FD_INODE"})

\* A process reads, writes or stats a file that stays allocated, and so does the
\* page of its pipe, whatever other processes close.  (That its end of the pipe
\* is open then follows from RefsMatch.)
UseIsSafe ==
  \A p \in Proc : pc[p] = "using" =>
    /\ file[using[p]] # NONE /\ file[using[p]].ref > 0
    /\ file[using[p]].type = "FD_PIPE" => pipe[file[using[p]].page] # NONE

\* filealloc reports that there is no memory; its callers test for that.
FileallocReturns == \A p \in Proc : pc[p] # "panic"

=============================================================================
