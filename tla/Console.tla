------------------------------ MODULE Console -------------------------------
(***************************************************************************)
(* Console input, kernel/console.c: consoleintr edits a line in a ring     *)
(* buffer and hands it over to consoleread.  Both run under cons.lock,     *)
(* which consoleread gives up only to sleep, so that each stretch of it    *)
(* between two sleeps is one step per character; a kill needs no cons.lock *)
(* and may come between the test of killed and the sleep.  The indices are *)
(* unsigned and wrap; here they count modulo ConsWrap.                     *)
(***************************************************************************)
EXTENDS Naturals, Sequences, FiniteSets

CONSTANTS ConsProc,        \* processes that read the console
          INPUT_BUF_SIZE,
          ConsWrap,        \* the range of r, w and e (2^32 in the code)
          Wants            \* lengths of reads

ASSUME ConsoleAssumption ==
  INPUT_BUF_SIZE \in Nat \ {0} /\ ConsWrap % INPUT_BUF_SIZE = 0 /\ ConsWrap > INPUT_BUF_SIZE

VARIABLES
  cons,     \* buf, r, w, e
  rd,       \* process -> [pc, n, target] of consoleread, and its killed flag
  typed,    \* history: the edited line, not handed over yet
  lines     \* history: what was handed over and not read

consVars == <<cons, rd, typed, lines>>

Char == {"x", "nl", "^D"}

Away == [pc |-> "idle", n |-> 0, target |-> 0, killed |-> FALSE]

ConsInit ==
  /\ cons = [buf |-> [i \in 0..(INPUT_BUF_SIZE - 1) |-> "x"], r |-> 0, w |-> 0, e |-> 0]
  /\ rd = [p \in ConsProc |-> Away]
  /\ typed = <<>>
  /\ lines = <<>>

Dist(i, j) == (j + ConsWrap - i) % ConsWrap      \* j - i, unsigned
At(i) == cons.buf[i % INPUT_BUF_SIZE]
Prev(i) == (i + ConsWrap - 1) % ConsWrap
Succ(i) == (i + 1) % ConsWrap

\* Nobody holds cons.lock on the way to sleep.
Unlocked == \A p \in ConsProc : rd[p].pc # "sleep"

\* wakeup(&cons.r).
WakeReaders == [p \in ConsProc |-> IF rd[p].pc = "asleep" THEN [rd[p] EXCEPT !.pc = "read"] ELSE rd[p]]

-----------------------------------------------------------------------------
(* consoleintr *)

\* A character is stored, if there is room; the end of a line, end of file or
\* the last free place hands the line over and wakes the readers.
Store(c) ==
  LET e == Succ(cons.e)
      over == c \in {"nl", "^D"} \/ Dist(cons.r, e) = INPUT_BUF_SIZE
  IN /\ Dist(cons.r, cons.e) < INPUT_BUF_SIZE
     /\ cons' = [cons EXCEPT !.buf[cons.e % INPUT_BUF_SIZE] = c, !.e = e, !.w = IF over THEN e ELSE @]
     /\ rd' = IF over THEN WakeReaders ELSE rd
     /\ typed' = IF over THEN <<>> ELSE Append(typed, c)
     /\ lines' = IF over THEN lines \o Append(typed, c) ELSE lines

\* Mutant of Backspace: it may go back into the lines that were handed over.
BackspaceFar ==
  /\ cons.e # cons.r
  /\ cons' = [cons EXCEPT !.e = Prev(@)]
  /\ typed' = IF typed = <<>> THEN <<>> ELSE SubSeq(typed, 1, Len(typed) - 1)
  /\ UNCHANGED <<rd, lines>>

Backspace ==
  /\ cons.e # cons.w
  /\ cons' = [cons EXCEPT !.e = Prev(@)]
  /\ typed' = SubSeq(typed, 1, Len(typed) - 1)
  /\ UNCHANGED <<rd, lines>>

\* Control-U: back to the last newline or to what was handed over.
KillLine ==
  LET stop == CHOOSE k \in 0..Dist(cons.w, cons.e) :
        /\ k = Dist(cons.w, cons.e) \/ At(Prev((cons.e + ConsWrap - k) % ConsWrap)) = "nl"
        /\ \A j \in 0..(k - 1) : At(Prev((cons.e + ConsWrap - j) % ConsWrap)) # "nl"
  IN /\ cons.e # cons.w
     /\ cons' = [cons EXCEPT !.e = (@ + ConsWrap - stop) % ConsWrap]
     /\ typed' = <<>>
     /\ UNCHANGED <<rd, lines>>

consoleintr == Unlocked /\ ((\E c \in Char : Store(c)) \/ Backspace \/ KillLine)

-----------------------------------------------------------------------------
(* consoleread *)

StartRead(p, n) ==
  /\ rd[p].pc = "idle"
  /\ rd' = [rd EXCEPT ![p] = [@ EXCEPT !.pc = "read", !.n = n, !.target = n]]
  /\ UNCHANGED <<cons, typed, lines>>

\* The read returns; a process that was killed exits, and another may come.
Done(p) == [rd EXCEPT ![p] = Away]

\* Nothing to read: a process that was killed returns, another will sleep.
ReadWaits(p) ==
  /\ rd[p].pc = "read" /\ Unlocked
  /\ cons.r = cons.w
  /\ rd' = IF rd[p].killed THEN Done(p) ELSE [rd EXCEPT ![p].pc = "sleep"]
  /\ UNCHANGED <<cons, typed, lines>>

\* sleep(&cons.r, &cons.lock).
ReadSleeps(p) ==
  /\ rd[p].pc = "sleep"
  /\ rd' = [rd EXCEPT ![p].pc = "asleep"]
  /\ UNCHANGED <<cons, typed, lines>>

\* One character is taken: end of file ends the read, and is put back if the
\* read has bytes to return; a newline, the last byte asked for or a copyout
\* that fails ends it too.
consoleread(p) ==
  LET c == At(cons.r)
      back == c = "^D" /\ rd[p].n < rd[p].target
  IN /\ rd[p].pc = "read" /\ Unlocked /\ cons.r # cons.w
     /\ cons' = IF back THEN cons ELSE [cons EXCEPT !.r = Succ(@)]
     /\ lines' = IF back THEN lines ELSE Tail(lines)
     /\ \/ rd' = Done(p)
        \/ c = "x" /\ rd[p].n > 1 /\ rd' = [rd EXCEPT ![p].n = @ - 1]
     /\ UNCHANGED typed

\* kill: the flag, and a wakeup.
ConsKill(p) ==
  /\ rd[p].pc # "idle" /\ ~rd[p].killed
  /\ rd' = [rd EXCEPT ![p] = [@ EXCEPT !.killed = TRUE, !.pc = IF @ = "asleep" THEN "read" ELSE @]]
  /\ UNCHANGED <<cons, typed, lines>>

ConsNext ==
  \/ consoleintr
  \/ \E p \in ConsProc :
       \/ \E n \in Wants : StartRead(p, n)
       \/ ReadWaits(p) \/ ReadSleeps(p) \/ consoleread(p) \/ ConsKill(p)

-----------------------------------------------------------------------------
(* Properties *)

Ring(i, j) == [k \in 1..Dist(i, j) |-> At((i + k - 1) % ConsWrap)]

\* The ring holds exactly the lines handed over and not read, then the line
\* being edited, while r, w and e wrap: no reader gets a character that was
\* erased or typed later, none is lost between readers, and end of file stays
\* until a read returns nothing.  Nobody sleeps with input to read, whoever else
\* reads or is killed, and a full buffer has input to read: typing can not wedge
\* the console.
ConsoleHolds ==
  /\ Ring(cons.r, cons.w) = lines /\ Ring(cons.w, cons.e) = typed
  /\ \A p \in ConsProc : rd[p].pc = "asleep" => cons.r = cons.w
  /\ Dist(cons.r, cons.e) = INPUT_BUF_SIZE => cons.r # cons.w

=============================================================================
