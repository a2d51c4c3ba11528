------------------------------- MODULE Names --------------------------------
(***************************************************************************)
(* Path names and the system calls that change directories: namex of       *)
(* kernel/fs.c and open, create, mkdir, mknod, link, unlink, chdir, close  *)
(* of kernel/sysfile.c, over the inode table of module Inode.              *)
(*                                                                         *)
(* A process stops before each lock it takes and before each iput; what it *)
(* does in between to an inode it has locked is one step.  A call's        *)
(* transaction only matters to a crash, which is the subject of Log.       *)
(* Variable l holds the locals of the call each process is in:             *)
(*   ip, dp    inode references, 0 when there is none;                     *)
(*   put       the reference iput is about to drop; after, where it        *)
(*             returns to;                                                 *)
(*   path      what namex has still to look up; ret, where it returns to.  *)
(***************************************************************************)
EXTENDS Inode

CONSTANTS Calls,    \* the calls a process may make: [op, path, new]
          MaxLinks  \* bound: no link while an inode has this many

VARIABLES l, cwd, fd,
          lost     \* history: inodes entered into a directory already removed

nameVars == <<inodeVars, l, cwd, fd, lost>>

Idle == [pc |-> "idle", op |-> "none", path |-> <<>>, new |-> <<>>, ret |-> "none",
         ip |-> 0, dp |-> 0, put |-> 0, after |-> "none"]

NamesInit ==
  /\ InodeInit
  /\ l = [p \in Proc |-> Idle]
  /\ cwd = [p \in Proc |-> 1]
  /\ fd = [p \in Proc |-> 0]
  /\ lost = {}

At(p, label) == l[p].pc = label
Goto(p, label) == l' = [l EXCEPT ![p].pc = label]
Return(p) == l' = [l EXCEPT ![p] = Idle]

\* iput(s), to return to label; the other locals become r's.
Putting(p, s, label, r) ==
  l' = [l EXCEPT ![p] = [r EXCEPT !.pc = "iput", !.put = s, !.after = label]]
NoIp(p) == [l[p] EXCEPT !.ip = 0]
NoDp(p) == [l[p] EXCEPT !.dp = 0]

\* ilock(s) and on to label, or panic.
Lock(p, from, s, label) ==
  /\ At(p, from)
  /\ ilock(p, s)
  /\ Goto(p, IF LockPanics(s) THEN "panic" ELSE label)
  /\ UNCHANGED <<dinode, dirents, cwd, fd, lost>>

\* iunlockput(ip) (or dp), and on to label.
UnlockPutIp(p, label) == iunlock(l[p].ip) /\ Putting(p, l[p].ip, label, NoIp(p))
UnlockPutDp(p, label) == iunlock(l[p].dp) /\ Putting(p, l[p].dp, label, NoDp(p))

-----------------------------------------------------------------------------
(* iput *)

\* Mutant of iput: the link count alone decides.
IputUnlinked(p) ==
  LET s == l[p].put
  IN /\ At(p, "iput")
     /\ IF itable[s].valid /\ itable[s].nlink = 0
          THEN /\ LockBy(p, s)
               /\ Goto(p, "free")
               /\ UNCHANGED itable
          ELSE /\ itable' = Drop(s)
               /\ l' = [l EXCEPT ![p].pc = l[p].after, ![p].put = 0]
               /\ UNCHANGED ilocks
     /\ UNCHANGED <<dinode, dirents, cwd, fd, lost>>

\* Drop the reference, or lock the inode to free it: acquiresleep under
\* itable.lock must find the lock free, or sched panics.
iput(p) ==
  LET s == l[p].put
  IN /\ At(p, "iput")
     /\ IF itable[s].ref = 1 /\ itable[s].valid /\ itable[s].nlink = 0
          THEN /\ ilocks' = [ilocks EXCEPT ![s] = p]
               /\ Goto(p, IF ilocks[s] = NONE THEN "free" ELSE "panic")
               /\ UNCHANGED itable
          ELSE /\ itable' = Drop(s)
               /\ l' = [l EXCEPT ![p].pc = l[p].after, ![p].put = 0]
               /\ UNCHANGED ilocks
     /\ UNCHANGED <<dinode, dirents, cwd, fd, lost>>

\* itrunc, type = 0, iupdate, valid = 0, releasesleep.
IputFrees(p) ==
  LET s == l[p].put
  IN /\ At(p, "free")
     /\ dinode' = [dinode EXCEPT ![s].type = "free"]
     /\ dirents' = [dirents EXCEPT ![s] = NoEntries]
     /\ itable' = [itable EXCEPT ![s].type = "free", ![s].valid = FALSE]
     /\ lost' = lost \ {s}
     /\ iunlock(s)
     /\ Goto(p, "drop")
     /\ UNCHANGED <<cwd, fd>>

IputDrops(p) ==
  /\ At(p, "drop")
  /\ itable' = Drop(l[p].put)
  /\ l' = [l EXCEPT ![p].pc = l[p].after, ![p].put = 0]
  /\ UNCHANGED <<ilocks, dinode, dirents, cwd, fd, lost>>

-----------------------------------------------------------------------------
(* namex *)

\* The calls that look up the parent of the last name.
nameiparent(r) == r.ret \in {"create", "mkdir", "mknod", "unlink", "newlink"}

\* Where a failed lookup continues: the call fails, link takes its count back.
Failed(r) == IF r.ret = "newlink" THEN "unbump" ELSE "idle"

\* namex starts at the root, or at the current directory.
Absolute(path) == path # <<>> /\ Head(path) = "/"
StartTable(p, path) == IF Absolute(path) THEN iget(ROOTINO) ELSE idup(cwd[p])
Start(p, path) == IF Absolute(path) THEN ROOTINO ELSE cwd[p]
Elements(path) == IF Absolute(path) THEN Tail(path) ELSE path

\* A call begins.
Call(p, c) ==
  /\ At(p, "idle")
  /\ c.op \in {"open", "create"} => fd[p] = 0
  /\ c.op = "link" => \A n \in Inum : dinode[n].nlink < MaxLinks
  /\ itable' = StartTable(p, c.path)
  /\ l' = [l EXCEPT ![p] = [Idle EXCEPT !.pc = "namex", !.op = c.op, !.ret = c.op, !.new = c.new,
                               !.path = Elements(c.path), !.ip = Start(p, c.path)]]
  /\ UNCHANGED <<ilocks, dinode, dirents, cwd, fd, lost>>

\* A path without elements.
NamexEnd(p) ==
  /\ At(p, "namex")
  /\ l[p].path = <<>>
  /\ IF nameiparent(l[p]) THEN Putting(p, l[p].ip, Failed(l[p]), NoIp(p))
                          ELSE Goto(p, l[p].ret)
  /\ UNCHANGED <<inodeVars, cwd, fd, lost>>

NamexLock(p) == l[p].path # <<>> /\ Lock(p, "namex", l[p].ip, "look")

\* Mutant of NamexLook: the reference to the next inode is not taken.
NamexUncounted(p) ==
  LET s == l[p].ip
      next == dirlookup(s, Head(l[p].path))
  IN /\ At(p, "look")
     /\ iunlock(s)
     /\ CASE itable[s].type # "DIR" -> Putting(p, s, Failed(l[p]), NoIp(p)) /\ UNCHANGED itable
          [] itable[s].type = "DIR" /\ nameiparent(l[p]) /\ Len(l[p].path) = 1
               -> Goto(p, l[p].ret) /\ UNCHANGED itable
          [] OTHER -> IF next = 0
               THEN Putting(p, s, Failed(l[p]), NoIp(p)) /\ UNCHANGED itable
               ELSE /\ itable' = [iget(next) EXCEPT ![next].ref =
                                     IF itable[next].ref > 0 THEN @ - 1 ELSE @]
                    /\ Putting(p, s, IF Len(l[p].path) = 1 THEN l[p].ret ELSE "namex",
                               [l[p] EXCEPT !.ip = next, !.path = Tail(@)])
     /\ UNCHANGED <<dinode, dirents, cwd, fd, lost>>

\* One element of the path, with its directory locked.
NamexLook(p) ==
  LET s == l[p].ip
      next == dirlookup(s, Head(l[p].path))
  IN /\ At(p, "look")
     /\ iunlock(s)
     /\ CASE itable[s].type # "DIR" -> Putting(p, s, Failed(l[p]), NoIp(p)) /\ UNCHANGED itable
          [] itable[s].type = "DIR" /\ nameiparent(l[p]) /\ Len(l[p].path) = 1
               -> Goto(p, l[p].ret) /\ UNCHANGED itable
          [] OTHER -> IF next = 0
               THEN Putting(p, s, Failed(l[p]), NoIp(p)) /\ UNCHANGED itable
               ELSE /\ itable' = iget(next)
                    /\ Putting(p, s, IF Len(l[p].path) = 1 THEN l[p].ret ELSE "namex",
                               [l[p] EXCEPT !.ip = next, !.path = Tail(@)])
     /\ UNCHANGED <<dinode, dirents, cwd, fd, lost>>

-----------------------------------------------------------------------------
(* open without O_CREATE, close, chdir *)

OpenLock(p) == Lock(p, "open", l[p].ip, "opened")

\* The end of sys_open: a file and a descriptor are found, or not (or the
\* inode is a directory to be written).
Opened(p) ==
  /\ At(p, "opened")
  /\ iunlock(l[p].ip)
  /\ \/ fd' = [fd EXCEPT ![p] = l[p].ip] /\ Return(p)
     \/ Putting(p, l[p].ip, "idle", NoIp(p)) /\ UNCHANGED fd
  /\ UNCHANGED <<itable, dinode, dirents, cwd, lost>>

\* The last close of an open file.
Close(p) ==
  /\ At(p, "idle")
  /\ fd[p] # 0
  /\ fd' = [fd EXCEPT ![p] = 0]
  /\ Putting(p, fd[p], "idle", Idle)
  /\ UNCHANGED <<inodeVars, cwd, lost>>

ChdirLock(p) == Lock(p, "chdir", l[p].ip, "chdir2")

sys_chdir(p) ==
  /\ At(p, "chdir2")
  /\ iunlock(l[p].ip)
  /\ IF itable[l[p].ip].type = "DIR"
       THEN /\ cwd' = [cwd EXCEPT ![p] = l[p].ip]
            /\ Putting(p, cwd[p], "idle", NoIp(p))
       ELSE /\ Putting(p, l[p].ip, "idle", NoIp(p))
            /\ UNCHANGED cwd
  /\ UNCHANGED <<itable, dinode, dirents, fd, lost>>

-----------------------------------------------------------------------------
(* create and mkdir *)

Name1(p) == Head(l[p].path)
Type(p) == [mkdir |-> "DIR", mknod |-> "DEVICE", create |-> "FILE"][l[p].op]

\* A name is entered into a directory that may have been removed.
Entered(dp, n) == lost' = IF itable[dp].nlink = 0 THEN lost \union {n} ELSE lost

CreateLock(p) == \E from \in {"create", "mkdir", "mknod"} : Lock(p, from, l[p].ip, "create2")

\* dirlookup in the locked parent, then ialloc.
create(p) ==
  LET s == l[p].ip
      n == dirlookup(s, Name1(p))
  IN /\ At(p, "create2")
     /\ \/ /\ n # 0
           /\ itable' = iget(n)
           /\ iunlock(s)
           /\ Putting(p, s, "exists", [l[p] EXCEPT !.ip = n])
           /\ UNCHANGED dinode
        \/ /\ n = 0 /\ FreeInodes = {}
           /\ UnlockPutIp(p, "idle")
           /\ UNCHANGED <<itable, dinode>>
        \/ /\ n = 0
           /\ \E i \in FreeInodes :
                /\ dinode' = [dinode EXCEPT ![i] = [type |-> Type(p), nlink |-> 0]]
                /\ itable' = iget(i)
                /\ l' = [l EXCEPT ![p].pc = "created", ![p].dp = s, ![p].ip = i]
           /\ UNCHANGED ilocks
     /\ UNCHANGED <<dirents, cwd, fd, lost>>

ExistsLock(p) == Lock(p, "exists", l[p].ip, "exists2")

\* The name exists: open may use it unless it is a directory.
Exists(p) ==
  /\ At(p, "exists2")
  /\ IF l[p].op = "create" /\ itable[l[p].ip].type \in {"FILE", "DEVICE"}
       THEN Goto(p, "opened") /\ UNCHANGED ilocks
       ELSE UnlockPutIp(p, "idle")
  /\ UNCHANGED <<itable, dinode, dirents, cwd, fd, lost>>

\* The new inode is locked and gets its link.
CreateInode(p) ==
  LET s == l[p].ip
  IN /\ At(p, "created")
     /\ LockBy(p, s)
     /\ itable' = SetNlink(Filled(s), s, 1)
     /\ dinode' = DiskNlink(s, 1)
     /\ Goto(p, IF LockPanics(s) THEN "panic" ELSE "linking")
     /\ UNCHANGED <<dirents, cwd, fd, lost>>

\* Mutant of CreateLinks: the parent does not count the new "..".
CreateUncounted(p) ==
  LET s == l[p].ip
      d == l[p].dp
      dir == l[p].op = "mkdir"
  IN /\ At(p, "linking")
     /\ dirents' = [dirents EXCEPT ![s] = IF dir THEN [@ EXCEPT !["."] = s, ![".."] = d] ELSE @,
                                   ![d] = [@ EXCEPT ![Name1(p)] = s]]
     /\ Entered(d, s)
     /\ iunlock(d)
     /\ Putting(p, d, IF l[p].op = "create" THEN "opened" ELSE "mkdone", NoDp(p))
     /\ UNCHANGED <<itable, dinode, cwd, fd>>

\* dirlink three times, the count of the parent, iunlockput(dp).
CreateLinks(p) ==
  LET s == l[p].ip
      d == l[p].dp
      dir == l[p].op = "mkdir"
      count == itable[d].nlink + (IF dir THEN 1 ELSE 0)
  IN /\ At(p, "linking")
     /\ dirents' = [dirents EXCEPT ![s] = IF dir THEN [@ EXCEPT !["."] = s, ![".."] = d] ELSE @,
                                   ![d] = [@ EXCEPT ![Name1(p)] = s]]
     /\ itable' = SetNlink(itable, d, count)
     /\ dinode' = DiskNlink(d, count)
     /\ Entered(d, s)
     /\ iunlock(d)
     /\ Putting(p, d, IF l[p].op = "create" THEN "opened" ELSE "mkdone", NoDp(p))
     /\ UNCHANGED <<cwd, fd>>

\* A dirlink fails (the disk is full): the new inode loses its link and is put.
CreateFails(p) ==
  LET s == l[p].ip
  IN /\ At(p, "linking")
     /\ itable' = SetNlink(itable, s, 0)
     /\ dinode' = DiskNlink(s, 0)
     /\ UnlockPutIp(p, "giveup")
     /\ UNCHANGED <<dirents, cwd, fd, lost>>

\* iunlockput(dp) after a failure.
GiveUp(p) ==
  /\ At(p, "giveup")
  /\ UnlockPutDp(p, "idle")
  /\ UNCHANGED <<itable, dinode, dirents, cwd, fd, lost>>

\* The end of sys_mkdir and sys_mknod.
Mkdone(p) ==
  /\ At(p, "mkdone")
  /\ UnlockPutIp(p, "idle")
  /\ UNCHANGED <<itable, dinode, dirents, cwd, fd, lost>>

-----------------------------------------------------------------------------
(* unlink *)

UnlinkLock(p) == Lock(p, "unlink", l[p].ip, "unlink2")

\* dirlookup in the locked parent.
UnlinkLook(p) ==
  LET s == l[p].ip
      n == dirlookup(s, Name1(p))
  IN /\ At(p, "unlink2")
     /\ IF Name1(p) \in {".", ".."} \/ n = 0
          THEN UnlockPutIp(p, "idle") /\ UNCHANGED itable
          ELSE /\ itable' = iget(n)
               /\ l' = [l EXCEPT ![p].pc = "unlink3", ![p].dp = s, ![p].ip = n]
               /\ UNCHANGED ilocks
     /\ UNCHANGED <<dinode, dirents, cwd, fd, lost>>

\* The parent stays locked while the inode is locked.
UnlinkLockIp(p) == Lock(p, "unlink3", l[p].ip, "unlink4")

\* The entry is erased, ".." no longer counts, iunlockput(dp).
sys_unlink(p) ==
  LET s == l[p].ip
      d == l[p].dp
      dir == itable[s].type = "DIR"
      n == itable[d].nlink - (IF dir THEN 1 ELSE 0)
  IN /\ At(p, "unlink4")
     /\ IF itable[s].nlink < 1 THEN Goto(p, "panic") /\ UNCHANGED inodeVars
        ELSE IF dir /\ ~isdirempty(s)
          THEN UnlockPutIp(p, "giveup") /\ UNCHANGED <<itable, dinode, dirents>>
          ELSE /\ dirents' = [dirents EXCEPT ![d][Name1(p)] = 0]
               /\ itable' = SetNlink(itable, d, n)
               /\ dinode' = DiskNlink(d, n)
               /\ UnlockPutDp(p, "unlink5")
     /\ UNCHANGED <<cwd, fd, lost>>

\* The inode, still locked, loses its link.
Unlinked(p) ==
  LET s == l[p].ip
  IN /\ At(p, "unlink5")
     /\ itable' = SetNlink(itable, s, itable[s].nlink - 1)
     /\ dinode' = DiskNlink(s, itable[s].nlink - 1)
     /\ UnlockPutIp(p, "idle")
     /\ UNCHANGED <<dirents, cwd, fd, lost>>

-----------------------------------------------------------------------------
(* link *)

LinkLock(p) == Lock(p, "link", l[p].ip, "link2")

\* The count is raised before the new name is looked up; dp keeps the inode.
LinkBumps(p) ==
  LET s == l[p].ip
      n == itable[s].nlink + 1
  IN /\ At(p, "link2")
     /\ iunlock(s)
     /\ IF itable[s].type = "DIR"
          THEN Putting(p, s, "idle", NoIp(p)) /\ UNCHANGED <<itable, dinode>>
          ELSE /\ itable' = SetNlink(StartTable(p, l[p].new), s, n)
               /\ dinode' = DiskNlink(s, n)
               /\ l' = [l EXCEPT ![p].pc = "namex", ![p].ret = "newlink", ![p].dp = s,
                         ![p].ip = Start(p, l[p].new), ![p].path = Elements(l[p].new)]
     /\ UNCHANGED <<dirents, cwd, fd, lost>>

NewlinkLock(p) == Lock(p, "newlink", l[p].ip, "newlink2")

\* dirlink in the locked directory: the name exists, the disk is full, or the
\* entry is written.
sys_link(p) ==
  LET s == l[p].ip
      old == dirlookup(s, Name1(p))
  IN /\ At(p, "newlink2")
     /\ \/ /\ old # 0
           /\ itable' = iget(old)
           /\ Putting(p, old, "nolink", l[p])
           /\ UNCHANGED <<ilocks, dirents, lost>>
        \/ /\ old = 0
           /\ UnlockPutIp(p, "unbump")
           /\ UNCHANGED <<itable, dirents, lost>>
        \/ /\ old = 0
           /\ dirents' = [dirents EXCEPT ![s][Name1(p)] = l[p].dp]
           /\ Entered(s, l[p].dp)
           /\ UnlockPutIp(p, "linked")
           /\ UNCHANGED itable
     /\ UNCHANGED <<dinode, cwd, fd>>

\* iunlockput(dp) after dirlink has found the name.
Nolink(p) ==
  /\ At(p, "nolink")
  /\ UnlockPutIp(p, "unbump")
  /\ UNCHANGED <<itable, dinode, dirents, cwd, fd, lost>>

Linked(p) ==
  /\ At(p, "linked")
  /\ Putting(p, l[p].dp, "idle", NoDp(p))
  /\ UNCHANGED <<inodeVars, cwd, fd, lost>>

UnbumpLock(p) == Lock(p, "unbump", l[p].dp, "unbump2")

\* bad: the count is taken back.
Unbump(p) ==
  LET s == l[p].dp
  IN /\ At(p, "unbump2")
     /\ itable' = SetNlink(itable, s, itable[s].nlink - 1)
     /\ dinode' = DiskNlink(s, itable[s].nlink - 1)
     /\ UnlockPutDp(p, "idle")
     /\ UNCHANGED <<dirents, cwd, fd, lost>>

-----------------------------------------------------------------------------
NamesNext ==
  \E p \in Proc :
    \/ \E c \in Calls : Call(p, c)
    \/ iput(p) \/ IputFrees(p) \/ IputDrops(p)
    \/ NamexEnd(p) \/ NamexLock(p) \/ NamexLook(p)
    \/ OpenLock(p) \/ Opened(p) \/ Close(p) \/ ChdirLock(p) \/ sys_chdir(p)
    \/ CreateLock(p) \/ create(p) \/ ExistsLock(p) \/ Exists(p) \/ CreateInode(p)
    \/ CreateLinks(p) \/ CreateFails(p) \/ GiveUp(p) \/ Mkdone(p)
    \/ UnlinkLock(p) \/ UnlinkLook(p) \/ UnlinkLockIp(p) \/ sys_unlink(p) \/ Unlinked(p)
    \/ LinkLock(p) \/ LinkBumps(p) \/ NewlinkLock(p) \/ sys_link(p) \/ Nolink(p)
    \/ Linked(p) \/ UnbumpLock(p) \/ Unbump(p)

-----------------------------------------------------------------------------
(* Properties *)

\* Every reference is counted: through any interleaving and every failure of
\* these calls, ref is the number of pointers that processes, descriptors and
\* current directories really hold.
InodeRefsExact ==
  \A s \in Inum :
       itable[s].ref = Cardinality({p \in Proc : cwd[p] = s})
                     + Cardinality({p \in Proc : fd[p] = s})
                     + Cardinality({p \in Proc : l[p].ip = s})
                     + Cardinality({p \in Proc : l[p].dp = s})
                     + Cardinality({p \in Proc : l[p].put = s})

\* The calls under way that hold a link count apart from the entry it is for.
Pending(n) ==
  Cardinality({p \in Proc :
    \/ l[p].dp # 0 /\ l[p].dp = n /\ l[p].ret = "newlink"
         /\ l[p].pc # "linked" /\ l[p].after # "linked"
    \/ l[p].ip # 0 /\ l[p].ip = n /\ (l[p].pc = "linking" \/
         l[p].pc = "unlink5" \/ l[p].after = "unlink5")})

\* The entries that count: names, and ".." of the directories that have a name.
Named(d) == \E e \in Inum, x \in Name : dirents[e][x] = d
Entries(n) ==
  Cardinality({<<d, x>> \in Inum \X (Name \union {".."}) :
                 dirents[d][x] = n /\ d # n /\ (x = ".." => Named(d))})

\* nlink counts the directory entries: no entry outlives the link it stands for
\* (or its inode would be freed under it), and no link outlives its entry (or
\* the inode would never be freed), unless the entry was made in a directory
\* that had been removed in the meantime.
LinksMatch ==
  \A n \in Inum \ lost : dinode[n].type # "free" =>
    dinode[n].nlink = Entries(n) + Pending(n) + (IF n = ROOTINO THEN 1 ELSE 0)

\* An inode that is named in a directory or referred to is allocated: iput frees
\* neither under a name nor under an open file or a lookup, and lookups never
\* panic.  It holds as long as no path contains "..": with one, a stale entry
\* leads ilock to its panic "ilock: no type".  The panic of iget on a full inode
\* table ("iget: no inodes") is assumed away: here the table has room for every
\* inode of the disk.
NoInodePanic == \A p \in Proc : l[p].pc # "panic"
=============================================================================
