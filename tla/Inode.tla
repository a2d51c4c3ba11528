------------------------------- MODULE Inode --------------------------------
(***************************************************************************)
(* The inode table of kernel/fs.c: references (iget, idup, iput) under     *)
(* itable.lock, the sleep-lock of each entry (ilock, iunlock), and the     *)
(* life of an inode on disk (ialloc, iupdate, the freeing branch of iput). *)
(* The table's operations are operators on its value; Names builds the     *)
(* system calls from them.  An entry is named by the number of the inode   *)
(* it holds: iget, in one section under itable.lock, finds that entry or   *)
(* fills a free one, so which of the NINODE entries it is does not matter. *)
(* Of an inode's contents this module keeps the entries of a directory;    *)
(* the blocks of a file are module FileData.                               *)
(***************************************************************************)
EXTENDS Naturals, Sequences, FiniteSets, FiniteSetsExt

CONSTANTS Proc,     \* processes
          ninodes,  \* inodes on disk, 1 .. ninodes; the table has room for all
          Name,     \* names a directory may hold, besides "." and ".."
          NONE

ROOTINO == 1
Inum == 1..ninodes
DirName == Name \union {".", ".."}
NoEntries == [x \in DirName |-> 0]

\* No entry.  iget sets every field that is read before ilock fills in the
\* others, so the old values are dead.
Empty == [ref |-> 0, valid |-> FALSE, type |-> "free", nlink |-> 0]

VARIABLES
  itable,   \* inode -> its entry [ref, valid, type, nlink]
  ilocks,   \* inode -> the process that holds ip->lock, or NONE
  dinode,   \* disk: inode -> [type, nlink]
  dirents   \* disk: inode -> name -> inode, 0 where there is no entry

inodeVars == <<itable, ilocks, dinode, dirents>>

InodeInit ==
  /\ itable = [n \in Inum |-> IF n = ROOTINO THEN [Empty EXCEPT !.ref = Cardinality(Proc)]
                                             ELSE Empty]
  /\ ilocks = [n \in Inum |-> NONE]
  /\ dinode = [n \in Inum |-> IF n = ROOTINO THEN [type |-> "DIR", nlink |-> 1]
                                             ELSE [type |-> "free", nlink |-> 0]]
  /\ dirents = [n \in Inum |->
       IF n = ROOTINO THEN [NoEntries EXCEPT !["."] = ROOTINO, ![".."] = ROOTINO]
                      ELSE NoEntries]

-----------------------------------------------------------------------------
iget(n) ==
  [itable EXCEPT ![n] = IF @.ref > 0 THEN [@ EXCEPT !.ref = @ + 1] ELSE [Empty EXCEPT !.ref = 1]]

idup(s) == [itable EXCEPT ![s].ref = @ + 1]

\* ip->ref--.
Drop(s) == [itable EXCEPT ![s] = IF @.ref = 1 THEN Empty ELSE [@ EXCEPT !.ref = @ - 1]]

\* ilock: the lock is free; the inode is read unless the entry is valid.
LockBy(p, s) == ilocks[s] = NONE /\ ilocks' = [ilocks EXCEPT ![s] = p]
Filled(s) ==
  IF itable[s].valid THEN itable
  ELSE [itable EXCEPT ![s].valid = TRUE,
                      ![s].type = dinode[s].type,
                      ![s].nlink = dinode[s].nlink]
LockPanics(s) == itable[s].ref < 1 \/ (~itable[s].valid /\ dinode[s].type = "free")
ilock(p, s) == LockBy(p, s) /\ itable' = Filled(s)

iunlock(s) == ilocks' = [ilocks EXCEPT ![s] = NONE]

\* ip->nlink += d and iupdate: the entry and the inode on disk.
SetNlink(T, s, n) == [T EXCEPT ![s].nlink = n]
DiskNlink(s, n) == [dinode EXCEPT ![s].nlink = n]

\* The free inodes among which ialloc finds one.
FreeInodes == {n \in Inum : dinode[n].type = "free"}

dirlookup(s, name) == dirents[s][name]

isdirempty(s) == \A x \in Name : dirlookup(s, x) = 0

=============================================================================
