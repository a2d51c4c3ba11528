-------------------------------- MODULE ShRun --------------------------------
(***************************************************************************)
(* The shell runs a parsed line (runcmd and main of user/sh.c): the        *)
(* processes it forks, their descriptors, and the pipes between them.      *)
(* Programs are external: one whose input is a pipe reads until its end,   *)
(* that is until no process has the pipe's other end open; any other ends  *)
(* by itself.  fork, open and pipe may fail.                               *)
(***************************************************************************)
EXTENDS ShParse, FiniteSetsExt

CONSTANTS RunLines,   \* the lines that are run; each of them parses
          NFd,        \* NOFILE
          MayFail   \* whether fork, pipe and open may fail

\* Each line parsed.
Parsed == [line \in RunLines |-> parsecmd(line)]

VARIABLE sh   \* the processes in the order of their forks; the shell is the first

shVars == <<shline, sh>>

\* What a descriptor names: nothing, the console, a file, or an end ("r" or "w")
\* of the pipe made by process p.
Nothing == <<0, "-">>
Con == <<0, "con">>
File == <<0, "file">>
PipeEnd(p, e) == <<p, e>>
NoCmd == execcmd(<<>>)
Fd == 0..(NFd - 1)

\* at: "main", "runcmd", "pipe" (its second fork), "wait", "prog" or "exit";
\* kids: children still to be waited for; then: what to run after that.
Process(parent, fds, cmd) ==
  [at |-> "runcmd", parent |-> parent, fds |-> fds, cmd |-> cmd, kids |-> 0, then |-> NoCmd]

ShRunInit ==
  /\ shline \in RunLines
  /\ sh = <<[Process(0, [f \in Fd |-> IF f < 3 THEN Con ELSE Nothing], NoCmd) EXCEPT !.at = "main"]>>

\* The lowest free descriptor (fdalloc), NFd if there is none.
fdalloc(fds) == Min({f \in Fd : fds[f] = Nothing} \union {NFd})
Dup(fds, obj) == IF fdalloc(fds) = NFd THEN fds ELSE [fds EXCEPT ![fdalloc(fds)] = obj]
CloseFd(fds, f) == [fds EXCEPT ![f] = Nothing]

Does(p, where) == p \in 1..Len(sh) /\ sh[p].at = where
ShBecomes(p, new) == sh' = [sh EXCEPT ![p] = new] /\ UNCHANGED shline
\* p becomes new and forks child.
Fork(p, new, child) == sh' = Append([sh EXCEPT ![p] = new], child) /\ UNCHANGED shline
\* exit closes every descriptor and forgets the rest.
Exited(p) == [Process(sh[p].parent, [f \in Fd |-> Nothing], NoCmd) EXCEPT !.at = "exit"]
exit(p) == ShBecomes(p, Exited(p))
\* p waits for n children and then runs cmd, or exits if it is NoCmd.
Waiting(p, n, cmd) == [sh[p] EXCEPT !.at = "wait", !.kids = n, !.then = cmd]

-----------------------------------------------------------------------------
ShMain(p) ==
  /\ Does(p, "main")
  /\ \/ Fork(p, Waiting(p, 1, NoCmd), Process(p, sh[p].fds, Parsed[shline].cmd))
     \/ MayFail /\ exit(p)

Runs1(p, type) == Does(p, "runcmd") /\ sh[p].cmd.type = type

RunExec(p) ==
  /\ Runs1(p, "EXEC")
  /\ IF sh[p].cmd.argv = <<>> THEN exit(p)
     ELSE ShBecomes(p, [sh[p] EXCEPT !.at = "prog", !.cmd = NoCmd])

RunRedir(p) ==
  LET to == IF sh[p].cmd.mode = "<" THEN 0 ELSE 1
  IN /\ Runs1(p, "REDIR")
     /\ \/ ShBecomes(p, [sh[p] EXCEPT !.fds = Dup(CloseFd(@, to), File), !.cmd = @.cmd])
        \/ MayFail /\ exit(p)

RunList(p) ==
  /\ Runs1(p, "LIST")
  /\ \/ Fork(p, [Waiting(p, 1, sh[p].cmd.right) EXCEPT !.cmd = NoCmd],
             Process(p, sh[p].fds, sh[p].cmd.left))
     \/ MayFail /\ exit(p)

RunBack(p) ==
  /\ Runs1(p, "BACK")
  /\ \/ Fork(p, Exited(p), Process(p, sh[p].fds, sh[p].cmd.cmd))
     \/ MayFail /\ exit(p)

\* The descriptors of pipe(p): the two lowest free ones.
P0(fds) == fdalloc(fds)
P1(fds) == fdalloc([fds EXCEPT ![P0(fds)] = Con])

\* close(to); dup(p[from]); close(p[0]); close(p[1]).
PipeChild(fds, p0, p1, to, obj) == CloseFd(CloseFd(Dup(CloseFd(fds, to), obj), p0), p1)

RunPipe(p) ==
  LET fds == sh[p].fds
      both == [fds EXCEPT ![P0(fds)] = PipeEnd(p, "r"), ![P1(fds)] = PipeEnd(p, "w")]
  IN /\ Runs1(p, "PIPE")
     /\ \/ Fork(p, [sh[p] EXCEPT !.at = "pipe", !.fds = both],
                Process(p, PipeChild(both, P0(fds), P1(fds), 1, PipeEnd(p, "w")), sh[p].cmd.left))
        \/ MayFail /\ exit(p)

\* Mutant of ParentFds: the parent keeps the write end.
ParentKeeps(p) == LET fds == sh[p].fds IN
  [f \in Fd |-> IF fds[f] = PipeEnd(p, "r") THEN Nothing ELSE fds[f]]

\* close(p[0]); close(p[1]) in the parent.
ParentFds(p) == LET fds == sh[p].fds IN
  [f \in Fd |-> IF fds[f] \in {PipeEnd(p, "r"), PipeEnd(p, "w")} THEN Nothing ELSE fds[f]]

RunPipeRight(p) ==
  LET fds == sh[p].fds
      p0 == CHOOSE f \in Fd : fds[f] = PipeEnd(p, "r")
      p1 == CHOOSE f \in Fd : fds[f] = PipeEnd(p, "w")
  IN /\ Does(p, "pipe")
     /\ \/ Fork(p, [Waiting(p, 2, NoCmd) EXCEPT !.fds = ParentFds(p), !.cmd = NoCmd],
                Process(p, PipeChild(fds, p0, p1, 0, PipeEnd(p, "r")), sh[p].cmd.right))
        \/ MayFail /\ exit(p)

\* wait(0) takes one exited child; it is no one's child any more.
ShWait(p) ==
  /\ Does(p, "wait")
  /\ \E c \in 1..Len(sh) :
       /\ sh[c].at = "exit" /\ sh[c].parent = p
       /\ sh' = [sh EXCEPT ![c].parent = 0,
                 ![p] = IF sh[p].kids > 1 THEN [sh[p] EXCEPT !.kids = @ - 1]
                        ELSE IF sh[p].then = NoCmd THEN Exited(p)
                        ELSE [sh[p] EXCEPT !.at = "runcmd", !.kids = 0, !.cmd = sh[p].then, !.then = NoCmd]]
  /\ UNCHANGED shline

\* Some process has obj open.
Open(obj) == \E q \in 1..Len(sh) : \E f \in Fd : sh[q].fds[f] = obj

\* The program ends; a reader of a pipe at the pipe's end.
ProgramEnds(p) ==
  /\ Does(p, "prog")
  /\ \A q \in 1..Len(sh) : sh[p].fds[0] = PipeEnd(q, "r") => ~Open(PipeEnd(q, "w"))
  /\ exit(p)

ShStep(p) ==
  \/ ShMain(p) \/ RunExec(p) \/ RunRedir(p) \/ RunList(p) \/ RunBack(p)
  \/ RunPipe(p) \/ RunPipeRight(p) \/ ShWait(p) \/ ProgramEnds(p)

MaxForks == 8   \* bound on the processes of a line
ShNext == \E p \in 1..MaxForks : ShStep(p)

-----------------------------------------------------------------------------
(* Properties *)

\* No line gets stuck: until all of its processes have exited one of them can go
\* on, so that every program of every pipeline sees the end of its input and the
\* shell gets its prompt back.  The pipe ends that runcmd hands out and closes,
\* in the children and in the process that forks them, decide it.
LinesEnd ==
  (\E p \in 1..Len(sh) : sh[p].at # "exit") => \E p \in 1..Len(sh) : ENABLED ShStep(p)

=============================================================================
