---------------------------- MODULE PipeProofs -----------------------------
(***************************************************************************)
(* The pipe for every size, any number of readers and writers, and indices *)
(* of any width that PIPESIZE divides: the pipe is a bounded FIFO, no      *)
(* wakeup is lost, and its page is freed exactly when nobody uses it.      *)
(***************************************************************************)
EXTENDS Pipe, Integers, TLAPS

\* Leaves are tried with Zenon first, which is quick to give up.
USE ZenonT(3), SMTT(30)

-----------------------------------------------------------------------------
(* The inductive invariant *)

WriterPcs == {"idle", "close", "wlock", "write", "write_sleep", "wsleep"}
ReaderPcs == {"idle", "close", "rlock", "read", "read_sleep", "read_copy", "rsleep"}
Inside == {"write", "write_sleep", "read", "read_sleep", "read_copy"}

PipeTypes ==
  /\ data \in [0..(PIPESIZE - 1) -> Byte]
  /\ nread \in 0..(UINT - 1) /\ nwrite \in 0..(UINT - 1)
  /\ readopen \in BOOLEAN /\ writeopen \in BOOLEAN /\ freed \in BOOLEAN
  /\ lock \in Proc \cup {NONE}
  /\ open \in SUBSET Proc
  /\ killed \in [Proc -> BOOLEAN]
  /\ pc \in [Proc -> WriterPcs \cup ReaderPcs]
  /\ left \in [Proc -> Nat]
  /\ \A p \in Writer : pc[p] \in WriterPcs
  /\ \A p \in Reader : pc[p] \in ReaderPcs

\* Whoever is inside a call's loop holds pi->lock, and nobody else does.
LockHeld == \A p \in Proc : pc[p] \in Inside <=> lock = p

\* What keeps the page: a process in a call has its descriptor open; the last
\* close of an end is the only one, and runs while the end is still open; and
\* an end that is closed has no descriptor left.
EndsHeld ==
  /\ \A p \in Proc : pc[p] \notin {"idle", "close"} => p \in open
  /\ \A p \in Writer : pc[p] = "close" => writeopen /\ open \cap Writer = {}
  /\ \A p \in Reader : pc[p] = "close" => readopen /\ open \cap Reader = {}
  /\ \A p, q \in Writer : pc[p] = "close" /\ pc[q] = "close" => p = q
  /\ \A p, q \in Reader : pc[p] = "close" /\ pc[q] = "close" => p = q
  /\ ~writeopen => open \cap Writer = {}
  /\ ~readopen => open \cap Reader = {}
  /\ freed <=> ~readopen /\ ~writeopen

\* A writer sleeps on a full pipe unless a reader is at work that will wake it;
\* a reader sleeps on an empty one unless a writer is at work that will wake
\* it, or some writer was killed.
SleepersInv ==
  /\ \A p \in Writer : pc[p] = "write_sleep" => full /\ readopen
  /\ \A p \in Writer : pc[p] = "wsleep" =>
       (full /\ readopen) \/ \E q \in Reader : pc[q] = "read_copy"
  /\ \A p \in Reader : pc[p] = "read_sleep" => empty /\ writeopen
  /\ (\A w \in Writer : ~killed[w]) => \A p \in Reader : pc[p] = "rsleep" =>
       (empty /\ writeopen) \/ \E q \in Writer : pc[q] = "write"

\* Never more than PIPESIZE bytes.
Bounded == InPipe <= PIPESIZE

PipeInv == PipeTypes /\ LockHeld /\ EndsHeld /\ SleepersInv /\ Bounded

-----------------------------------------------------------------------------
(* Arithmetic of the indices *)

\* a % m is the remainder of a, and the only one.
LEMMA ModDef ==
  ASSUME NEW a \in Nat, NEW m \in Nat \ {0}
  PROVE  /\ a \div m \in Nat
         /\ a % m \in 0..(m - 1)
         /\ a = m * (a \div m) + (a % m)
<1>1. a % m \in 0..(m - 1)
  OBVIOUS
<1>2. a \div m \in Int /\ a = m * (a \div m) + (a % m)
  OBVIOUS
<1>3. a \div m >= 0
  <2> DEFINE q == a \div m
  <2>1. q \in Int /\ a = m * q + (a % m)
    BY <1>2
  <2> HIDE DEF q
  <2>2. SUFFICES ASSUME q <= -1 PROVE FALSE
    BY <2>1 DEF q
  <2>3. m * q <= -m
    BY <2>1, <2>2
  <2> QED BY <2>1, <2>3, <1>1
<1> QED BY <1>1, <1>2, <1>3

\* A remainder is unique (the slot of an index).
LEMMA RemainderUnique ==
  ASSUME NEW m \in Nat \ {0}, NEW q \in Nat, NEW r \in 0..(m - 1),
         NEW s \in Nat, NEW t \in 0..(m - 1), m * q + r = m * s + t
  PROVE  r = t
<1>1. m * (q - s) = t - r
  OBVIOUS
<1>2. t - r < m /\ r - t < m
  OBVIOUS
<1>3. q - s = 0 \/ q - s >= 1 \/ s - q >= 1
  OBVIOUS
<1>4. CASE q - s >= 1
  <2>1. m * (q - s) >= m
    BY <1>4
  <2> QED BY <2>1, <1>1, <1>2
<1>5. CASE s - q >= 1
  <2>1. m * (s - q) >= m
    BY <1>5
  <2>2. m * (s - q) = r - t
    BY <1>1
  <2> QED BY <2>1, <2>2, <1>2
<1> QED BY <1>1, <1>3, <1>4, <1>5

\* The remainder of a sum with a multiple of m.
LEMMA ModIs ==
  ASSUME NEW a \in Nat, NEW m \in Nat \ {0}, NEW s \in Nat, NEW t \in 0..(m - 1),
         a = m * s + t
  PROVE  a % m = t
BY ModDef, RemainderUnique

\* An index below the modulus is its own remainder.
LEMMA ModSmall ==
  ASSUME NEW m \in Nat \ {0}, NEW a \in 0..(m - 1)
  PROVE  a % m = a
<1>1. a = m * 0 + a
  OBVIOUS
<1> QED BY <1>1, ModIs

\* One wrap-around subtracts the modulus once.
LEMMA ModOver ==
  ASSUME NEW m \in Nat \ {0}, NEW a \in m..(2 * m - 1)
  PROVE  a % m = a - m
<1>1. a = m * 1 + (a - m)
  OBVIOUS
<1>2. a - m \in 0..(m - 1)
  OBVIOUS
<1> QED BY <1>1, <1>2, ModIs

\* Adding a multiple of m changes no remainder.
LEMMA ModPlus ==
  ASSUME NEW m \in Nat \ {0}, NEW u \in Nat, u % m = 0, NEW a \in Nat
  PROVE  (a + u) % m = a % m
<1> DEFINE q == a \div m
           r == a % m
           k == u \div m
<1>1. q \in Nat /\ r \in 0..(m - 1) /\ a = m * q + r
  BY ModDef
<1>2. k \in Nat /\ u = m * k
  BY ModDef
<1> HIDE DEF q, r, k
<1>3. a + u = m * (q + k) + r
  BY <1>1, <1>2
<1>4. (a + u) % m = r
  BY <1>1, <1>2, <1>3, ModIs
<1> QED BY <1>4 DEF r

\* Positions less than m apart have different slots.
LEMMA ModApart ==
  ASSUME NEW m \in Nat \ {0}, NEW a \in Nat, NEW d \in 1..(m - 1)
  PROVE  (a + d) % m # a % m
<1> DEFINE q == a \div m
           r == a % m
<1>1. q \in Nat /\ r \in 0..(m - 1) /\ a = m * q + r
  BY ModDef
<1> HIDE DEF q, r
<1>2. CASE r + d < m
  <2>1. a + d = m * q + (r + d) /\ r + d \in 0..(m - 1)
    BY <1>1, <1>2
  <2>2. (a + d) % m = r + d
    BY <2>1, <1>1, ModIs
  <2> QED BY <2>2, <1>1 DEF r
<1>3. CASE ~(r + d < m)
  <2>1. a + d = m * (q + 1) + (r + d - m) /\ r + d - m \in 0..(m - 1)
    BY <1>1, <1>3
  <2>2. a + d \in Nat /\ q + 1 \in Nat
    BY <1>1
  <2>3. (a + d) % m = r + d - m
    BY <2>1, <2>2, ModIs
  <2> QED BY <2>3, <1>1 DEF r
<1> QED BY <1>2, <1>3

\* The number of bytes between two indices, wrapped or not.
Between(w, r) == (w + UINT - r) % UINT

\* nwrite - nread, in the two cases of a wrapped and an unwrapped nwrite.
LEMMA BetweenIs ==
  ASSUME NEW w \in 0..(UINT - 1), NEW r \in 0..(UINT - 1)
  PROVE  Between(w, r) = IF r <= w THEN w - r ELSE w + UINT - r
<1>1. UINT \in Nat \ {0} /\ w + UINT - r \in Nat
  BY PipeAssumption
<1>2. CASE r <= w
  <2>1. w + UINT - r \in UINT..(2 * UINT - 1)
    BY <1>1, <1>2
  <2>2. (w + UINT - r) % UINT = w + UINT - r - UINT
    BY <2>1, <1>1, ModOver
  <2> QED BY <2>2, <1>1, <1>2 DEF Between
<1>3. CASE ~(r <= w)
  <2>1. w + UINT - r \in 0..(UINT - 1)
    BY <1>1, <1>3
  <2> QED BY <2>1, <1>1, <1>3, ModSmall DEF Between
<1> QED BY <1>2, <1>3

\* The index after x.
LEMMA SuccIs ==
  ASSUME NEW x \in 0..(UINT - 1)
  PROVE  /\ (x + 1) % UINT = IF x = UINT - 1 THEN 0 ELSE x + 1
         /\ (x + 1) % UINT \in 0..(UINT - 1)
<1>1. UINT \in Nat \ {0} /\ UINT > 1
  BY PipeAssumption
<1>2. CASE x = UINT - 1
  <2>1. x + 1 \in UINT..(2 * UINT - 1)
    BY <1>1, <1>2
  <2> QED BY <2>1, <1>1, <1>2, ModOver
<1>3. CASE x # UINT - 1
  <2>1. x + 1 \in 0..(UINT - 1)
    BY <1>1, <1>3
  <2> QED BY <2>1, <1>1, <1>3, ModSmall
<1> QED BY <1>2, <1>3

\* A byte written, a byte read (pi->nwrite++, pi->nread++).
LEMMA BetweenStep ==
  ASSUME NEW w \in 0..(UINT - 1), NEW r \in 0..(UINT - 1), Between(w, r) <= PIPESIZE
  PROVE  /\ Between(w, r) < PIPESIZE => Between((w + 1) % UINT, r) = Between(w, r) + 1
         /\ Between(w, r) # 0 => Between(w, (r + 1) % UINT) = Between(w, r) - 1
<1>1. UINT \in Nat \ {0} /\ PIPESIZE \in Nat \ {0} /\ PIPESIZE < UINT
  BY PipeAssumption
<1>2. /\ (w + 1) % UINT = IF w = UINT - 1 THEN 0 ELSE w + 1
      /\ (w + 1) % UINT \in 0..(UINT - 1)
      /\ (r + 1) % UINT = IF r = UINT - 1 THEN 0 ELSE r + 1
      /\ (r + 1) % UINT \in 0..(UINT - 1)
  BY SuccIs
<1> DEFINE w1 == (w + 1) % UINT
           r1 == (r + 1) % UINT
<1>3. Between(w1, r) = IF r <= w1 THEN w1 - r ELSE w1 + UINT - r
  BY <1>2, BetweenIs
<1>4. Between(w, r1) = IF r1 <= w THEN w - r1 ELSE w + UINT - r1
  BY <1>2, BetweenIs
<1>5. Between(w, r) = IF r <= w THEN w - r ELSE w + UINT - r
  BY BetweenIs
<1>6. /\ w1 = IF w = UINT - 1 THEN 0 ELSE w + 1
      /\ r1 = IF r = UINT - 1 THEN 0 ELSE r + 1
  BY <1>2
<1> HIDE DEF w1, r1
<1>7. /\ Between(w, r) < PIPESIZE => Between(w1, r) = Between(w, r) + 1
      /\ Between(w, r) # 0 => Between(w, r1) = Between(w, r) - 1
  BY <1>1, <1>3, <1>4, <1>5, <1>6
<1> QED BY <1>7 DEF w1, r1

\* The tests of the two loops: pi->nwrite == pi->nread + PIPESIZE, and
\* pi->nread == pi->nwrite.
LEMMA FullAndEmpty ==
  ASSUME PipeTypes
  PROVE  /\ InPipe \in 0..(UINT - 1)
         /\ full <=> InPipe = PIPESIZE
         /\ empty <=> InPipe = 0
<1>1. /\ UINT \in Nat \ {0} /\ PIPESIZE \in Nat \ {0} /\ PIPESIZE < UINT
      /\ nread \in 0..(UINT - 1) /\ nwrite \in 0..(UINT - 1)
  BY PipeAssumption DEF PipeTypes
<1>2. InPipe = IF nread <= nwrite THEN nwrite - nread ELSE nwrite + UINT - nread
  BY <1>1, BetweenIs DEF InPipe, Between
<1>3. (nread + PIPESIZE) % UINT =
        IF nread + PIPESIZE < UINT THEN nread + PIPESIZE ELSE nread + PIPESIZE - UINT
  <2>1. CASE nread + PIPESIZE < UINT
    <3>1. nread + PIPESIZE \in 0..(UINT - 1)
      BY <1>1, <2>1
    <3> QED BY <3>1, <1>1, <2>1, ModSmall
  <2>2. CASE ~(nread + PIPESIZE < UINT)
    <3>1. nread + PIPESIZE \in UINT..(2 * UINT - 1)
      BY <1>1, <2>2
    <3> QED BY <3>1, <1>1, <2>2, ModOver
  <2> QED BY <2>1, <2>2
<1> QED BY <1>1, <1>2, <1>3 DEF full, empty

-----------------------------------------------------------------------------
(* The invariant is inductive *)

\* The state that pipealloc leaves.
LEMMA PipeInit == Init => PipeInv
<1> SUFFICES ASSUME Init PROVE PipeInv
  OBVIOUS
<1> USE PipeAssumption
<1>1. PipeTypes
  <2>1. /\ nread \in 0..(UINT - 1) /\ nwrite \in 0..(UINT - 1)
        /\ left \in [Proc -> Nat]
    BY DEF Init
  <2>2. /\ pc \in [Proc -> WriterPcs \cup ReaderPcs]
        /\ \A p \in Writer : pc[p] \in WriterPcs
        /\ \A p \in Reader : pc[p] \in ReaderPcs
    BY DEF Init, WriterPcs, ReaderPcs, Proc
  <2>3. killed \in [Proc -> BOOLEAN]
    BY Zenon DEF Init
  <2> QED BY <2>1, <2>2, <2>3 DEF Init, PipeTypes
<1>2. LockHeld
  BY DEF Init, LockHeld, Inside, Proc
<1>3. EndsHeld
  BY DEF Init, EndsHeld, Proc
<1>4. SleepersInv
  BY DEF Init, SleepersInv, Proc
<1>5. Bounded
  BY <1>1, FullAndEmpty DEF Init, Bounded, empty
<1> QED BY <1>1, <1>2, <1>3, <1>4, <1>5 DEF PipeInv

\* Every action of pipe.c keeps the types, and the processes of an end in its calls.
LEMMA TypesKept ==
  ASSUME PipeTypes, Next
  PROVE  PipeTypes'
<1> USE PipeAssumption DEF PipeTypes, WriterPcs, ReaderPcs, Proc, Goto, In, pipe, woken, wakeup_nread, wakeup_nwrite
<1>1. ASSUME NEW p \in Writer, sys_write(p) PROVE PipeTypes'
  BY <1>1 DEF sys_write
<1>2. ASSUME NEW p \in Writer, WriteLocks(p) PROVE PipeTypes'
  BY <1>2 DEF WriteLocks
<1>3. ASSUME NEW p \in Writer, WriteFails(p) PROVE PipeTypes'
  BY <1>3 DEF WriteFails
<1>4. ASSUME NEW p \in Writer, WriteFull(p) PROVE PipeTypes'
  BY <1>4 DEF WriteFull
<1>5. ASSUME NEW p \in Writer, WriteSleeps(p) PROVE PipeTypes'
  BY <1>5 DEF WriteSleeps
<1>6. ASSUME NEW p \in Writer, WriteByte(p) PROVE PipeTypes'
  BY <1>6 DEF WriteByte
<1>7. ASSUME NEW p \in Writer, WriteDone(p) PROVE PipeTypes'
  BY <1>7 DEF WriteDone
<1>8. ASSUME NEW p \in Reader, sys_read(p) PROVE PipeTypes'
  BY <1>8 DEF sys_read
<1>9. ASSUME NEW p \in Reader, ReadLocks(p) PROVE PipeTypes'
  BY <1>9 DEF ReadLocks
<1>10. ASSUME NEW p \in Reader, ReadEmpty(p) PROVE PipeTypes'
  BY <1>10 DEF ReadEmpty
<1>11. ASSUME NEW p \in Reader, ReadSleeps(p) PROVE PipeTypes'
  BY <1>11 DEF ReadSleeps
<1>12. ASSUME NEW p \in Reader, ReadStarts(p) PROVE PipeTypes'
  BY <1>12 DEF ReadStarts
<1>13. ASSUME NEW p \in Reader, ReadByte(p) PROVE PipeTypes'
  BY <1>13 DEF ReadByte
<1>14. ASSUME NEW p \in Reader, ReadFault(p) PROVE PipeTypes'
  BY <1>14 DEF ReadFault
<1>15. ASSUME NEW p \in Reader, ReadDone(p) PROVE PipeTypes'
  BY <1>15 DEF ReadDone
<1>16. ASSUME NEW p \in Proc, fileclose(p) PROVE PipeTypes'
  BY <1>16 DEF fileclose, Side
<1>17. ASSUME NEW p \in Proc, pipeclose(p) PROVE PipeTypes'
  <2>1. /\ UNCHANGED <<data, nread, nwrite, lock, open, killed, left>>
        /\ readopen' \in BOOLEAN /\ writeopen' \in BOOLEAN
    BY <1>17 DEF pipeclose
  <2>2. freed' \in BOOLEAN
    BY <1>17, Zenon DEF pipeclose
  <2>3. /\ pc' \in [Proc -> WriterPcs \cup ReaderPcs]
        /\ \A q \in Writer : pc'[q] \in WriterPcs
        /\ \A q \in Reader : pc'[q] \in ReaderPcs
    BY <1>17 DEF pipeclose
  <2> QED BY <2>1, <2>2, <2>3
<1>18. ASSUME NEW p \in Killable, kill(p) PROVE PipeTypes'
  BY <1>18 DEF kill
<1> QED BY <1>1, <1>2, <1>3, <1>4, <1>5, <1>6, <1>7, <1>8, <1>9, <1>10, <1>11, <1>12, <1>13, <1>14, <1>15, <1>16, <1>17, <1>18 DEF Next, Write, Read

\* acquire and release pair up: whoever is inside the loops holds pi->lock.
LEMMA LockKept ==
  ASSUME PipeTypes, LockHeld, Next
  PROVE  LockHeld'
<1> USE PipeAssumption DEF PipeTypes, WriterPcs, ReaderPcs, LockHeld, Inside, Proc, Goto, In, pipe, woken, wakeup_nread, wakeup_nwrite
<1>1. ASSUME NEW p \in Writer, sys_write(p) PROVE LockHeld'
  BY <1>1 DEF sys_write
<1>2. ASSUME NEW p \in Writer, WriteLocks(p) PROVE LockHeld'
  BY <1>2 DEF WriteLocks
<1>3. ASSUME NEW p \in Writer, WriteFails(p) PROVE LockHeld'
  BY <1>3 DEF WriteFails
<1>4. ASSUME NEW p \in Writer, WriteFull(p) PROVE LockHeld'
  BY <1>4 DEF WriteFull
<1>5. ASSUME NEW p \in Writer, WriteSleeps(p) PROVE LockHeld'
  BY <1>5 DEF WriteSleeps
<1>6. ASSUME NEW p \in Writer, WriteByte(p) PROVE LockHeld'
  BY <1>6 DEF WriteByte
<1>7. ASSUME NEW p \in Writer, WriteDone(p) PROVE LockHeld'
  BY <1>7 DEF WriteDone
<1>8. ASSUME NEW p \in Reader, sys_read(p) PROVE LockHeld'
  BY <1>8 DEF sys_read
<1>9. ASSUME NEW p \in Reader, ReadLocks(p) PROVE LockHeld'
  BY <1>9 DEF ReadLocks
<1>10. ASSUME NEW p \in Reader, ReadEmpty(p) PROVE LockHeld'
  BY <1>10 DEF ReadEmpty
<1>11. ASSUME NEW p \in Reader, ReadSleeps(p) PROVE LockHeld'
  BY <1>11 DEF ReadSleeps
<1>12. ASSUME NEW p \in Reader, ReadStarts(p) PROVE LockHeld'
  BY <1>12 DEF ReadStarts
<1>13. ASSUME NEW p \in Reader, ReadByte(p) PROVE LockHeld'
  BY <1>13 DEF ReadByte
<1>14. ASSUME NEW p \in Reader, ReadFault(p) PROVE LockHeld'
  BY <1>14 DEF ReadFault
<1>15. ASSUME NEW p \in Reader, ReadDone(p) PROVE LockHeld'
  BY <1>15 DEF ReadDone
<1>16. ASSUME NEW p \in Proc, fileclose(p) PROVE LockHeld'
  BY <1>16 DEF fileclose, Side
<1>17. ASSUME NEW p \in Proc, pipeclose(p) PROVE LockHeld'
  BY <1>17 DEF pipeclose
<1>18. ASSUME NEW p \in Killable, kill(p) PROVE LockHeld'
  BY <1>18 DEF kill
<1> QED BY <1>1, <1>2, <1>3, <1>4, <1>5, <1>6, <1>7, <1>8, <1>9, <1>10, <1>11, <1>12, <1>13, <1>14, <1>15, <1>16, <1>17, <1>18 DEF Next, Write, Read

\* fileclose and pipeclose close an end once, when its last descriptor goes.
LEMMA EndsKept ==
  ASSUME PipeTypes, EndsHeld, Next
  PROVE  EndsHeld'
<1> USE PipeAssumption DEF PipeTypes, WriterPcs, ReaderPcs, EndsHeld, Proc, Goto, In, pipe, woken, wakeup_nread, wakeup_nwrite
<1>1. ASSUME NEW p \in Writer, sys_write(p) PROVE EndsHeld'
  BY <1>1 DEF sys_write
<1>2. ASSUME NEW p \in Writer, WriteLocks(p) PROVE EndsHeld'
  BY <1>2 DEF WriteLocks
<1>3. ASSUME NEW p \in Writer, WriteFails(p) PROVE EndsHeld'
  BY <1>3 DEF WriteFails
<1>4. ASSUME NEW p \in Writer, WriteFull(p) PROVE EndsHeld'
  BY <1>4 DEF WriteFull
<1>5. ASSUME NEW p \in Writer, WriteSleeps(p) PROVE EndsHeld'
  BY <1>5 DEF WriteSleeps
<1>6. ASSUME NEW p \in Writer, WriteByte(p) PROVE EndsHeld'
  BY <1>6 DEF WriteByte
<1>7. ASSUME NEW p \in Writer, WriteDone(p) PROVE EndsHeld'
  BY <1>7 DEF WriteDone
<1>8. ASSUME NEW p \in Reader, sys_read(p) PROVE EndsHeld'
  BY <1>8 DEF sys_read
<1>9. ASSUME NEW p \in Reader, ReadLocks(p) PROVE EndsHeld'
  BY <1>9 DEF ReadLocks
<1>10. ASSUME NEW p \in Reader, ReadEmpty(p) PROVE EndsHeld'
  BY <1>10 DEF ReadEmpty
<1>11. ASSUME NEW p \in Reader, ReadSleeps(p) PROVE EndsHeld'
  BY <1>11 DEF ReadSleeps
<1>12. ASSUME NEW p \in Reader, ReadStarts(p) PROVE EndsHeld'
  BY <1>12 DEF ReadStarts
<1>13. ASSUME NEW p \in Reader, ReadByte(p) PROVE EndsHeld'
  BY <1>13 DEF ReadByte
<1>14. ASSUME NEW p \in Reader, ReadFault(p) PROVE EndsHeld'
  BY <1>14 DEF ReadFault
<1>15. ASSUME NEW p \in Reader, ReadDone(p) PROVE EndsHeld'
  BY <1>15 DEF ReadDone
<1>16. ASSUME NEW p \in Proc, fileclose(p) PROVE EndsHeld'
  BY <1>16 DEF fileclose, Side
<1>17. ASSUME NEW p \in Proc, pipeclose(p) PROVE EndsHeld'
  BY <1>17 DEF pipeclose
<1>18. ASSUME NEW p \in Killable, kill(p) PROVE EndsHeld'
  BY <1>18 DEF kill
<1> QED BY <1>1, <1>2, <1>3, <1>4, <1>5, <1>6, <1>7, <1>8, <1>9, <1>10, <1>11, <1>12, <1>13, <1>14, <1>15, <1>16, <1>17, <1>18 DEF Next, Write, Read

\* No step leaves a sleeper behind that somebody should have woken.
LEMMA SleepersKept ==
  ASSUME PipeTypes, LockHeld, EndsHeld, SleepersInv, Next
  PROVE  SleepersInv'
<1> USE PipeAssumption DEF PipeTypes, WriterPcs, ReaderPcs, LockHeld, Inside, EndsHeld, SleepersInv, full, empty, Proc, Goto, In, pipe, woken, wakeup_nread, wakeup_nwrite
<1>1. ASSUME NEW p \in Writer, sys_write(p) PROVE SleepersInv'
  BY <1>1 DEF sys_write
<1>2. ASSUME NEW p \in Writer, WriteLocks(p) PROVE SleepersInv'
  BY <1>2 DEF WriteLocks
<1>3. ASSUME NEW p \in Writer, WriteFails(p) PROVE SleepersInv'
  BY <1>3 DEF WriteFails
<1>4. ASSUME NEW p \in Writer, WriteFull(p) PROVE SleepersInv'
  BY <1>4 DEF WriteFull
<1>5. ASSUME NEW p \in Writer, WriteSleeps(p) PROVE SleepersInv'
  BY <1>5 DEF WriteSleeps
<1>6. ASSUME NEW p \in Writer, WriteByte(p) PROVE SleepersInv'
  BY <1>6 DEF WriteByte
<1>7. ASSUME NEW p \in Writer, WriteDone(p) PROVE SleepersInv'
  BY <1>7 DEF WriteDone
<1>8. ASSUME NEW p \in Reader, sys_read(p) PROVE SleepersInv'
  BY <1>8 DEF sys_read
<1>9. ASSUME NEW p \in Reader, ReadLocks(p) PROVE SleepersInv'
  BY <1>9 DEF ReadLocks
<1>10. ASSUME NEW p \in Reader, ReadEmpty(p) PROVE SleepersInv'
  BY <1>10 DEF ReadEmpty
<1>11. ASSUME NEW p \in Reader, ReadSleeps(p) PROVE SleepersInv'
  BY <1>11 DEF ReadSleeps
<1>12. ASSUME NEW p \in Reader, ReadStarts(p) PROVE SleepersInv'
  BY <1>12 DEF ReadStarts
<1>13. ASSUME NEW p \in Reader, ReadByte(p) PROVE SleepersInv'
  BY <1>13 DEF ReadByte
<1>14. ASSUME NEW p \in Reader, ReadFault(p) PROVE SleepersInv'
  BY <1>14 DEF ReadFault
<1>15. ASSUME NEW p \in Reader, ReadDone(p) PROVE SleepersInv'
  BY <1>15 DEF ReadDone
<1>16. ASSUME NEW p \in Proc, fileclose(p) PROVE SleepersInv'
  BY <1>16 DEF fileclose, Side
<1>17. ASSUME NEW p \in Proc, pipeclose(p) PROVE SleepersInv'
  <2>1. CASE p \in Writer
    <3>1. \A q \in Proc : pc[q] \notin Inside
      BY <1>17 DEF pipeclose
    <3>2. /\ UNCHANGED <<nread, nwrite, readopen, killed>>
          /\ \A q \in Reader : pc'[q] = IF pc[q] = "rsleep" THEN "rlock" ELSE pc[q]
          /\ \A q \in Writer : pc'[q] = IF q = p THEN "idle" ELSE pc[q]
      BY <1>17, <2>1 DEF pipeclose
    <3> QED BY <3>1, <3>2
  <2>2. CASE p \in Reader
    BY <1>17, <2>2 DEF pipeclose
  <2> QED BY <2>1, <2>2
<1>18. ASSUME NEW p \in Killable, kill(p) PROVE SleepersInv'
  BY <1>18 DEF kill
<1> QED BY <1>1, <1>2, <1>3, <1>4, <1>5, <1>6, <1>7, <1>8, <1>9, <1>10, <1>11, <1>12, <1>13, <1>14, <1>15, <1>16, <1>17, <1>18 DEF Next, Write, Read

\* A byte is written only into a pipe that is not full, and read only from one
\* that is not empty, so the number of bytes never passes PIPESIZE.
LEMMA BoundedKept ==
  ASSUME PipeTypes, Bounded, Next
  PROVE  /\ Bounded'
         /\ \A p \in Writer : WriteByte(p) => InPipe' = InPipe + 1
         /\ \A p \in Reader : ReadByte(p) \/ ReadFault(p) => InPipe' = InPipe - 1
<1>1. /\ nread \in 0..(UINT - 1) /\ nwrite \in 0..(UINT - 1)
      /\ PIPESIZE \in Nat \ {0} /\ UINT \in Nat
  BY PipeAssumption DEF PipeTypes
<1>2. InPipe = Between(nwrite, nread) /\ InPipe' = Between(nwrite', nread')
  BY DEF InPipe, Between
<1>3. /\ InPipe < PIPESIZE => Between((nwrite + 1) % UINT, nread) = InPipe + 1
      /\ InPipe # 0 => Between(nwrite, (nread + 1) % UINT) = InPipe - 1
  BY <1>1, <1>2, BetweenStep DEF Bounded
<1>4. InPipe \in Nat /\ (full <=> InPipe = PIPESIZE) /\ (empty <=> InPipe = 0)
  BY FullAndEmpty
<1>5. ASSUME NEW p \in Writer, WriteByte(p) PROVE InPipe' = InPipe + 1 /\ Bounded'
  <2>1. InPipe < PIPESIZE /\ nwrite' = (nwrite + 1) % UINT /\ nread' = nread
    BY <1>1, <1>4, <1>5 DEF WriteByte, Bounded
  <2> QED BY <2>1, <1>1, <1>2, <1>3, <1>4 DEF Bounded
<1>6. ASSUME NEW p \in Reader, ReadByte(p) \/ ReadFault(p)
      PROVE  InPipe' = InPipe - 1 /\ Bounded'
  <2>1. InPipe # 0 /\ nread' = (nread + 1) % UINT /\ nwrite' = nwrite
    BY <1>4, <1>6 DEF ReadByte, ReadFault
  <2> QED BY <2>1, <1>1, <1>2, <1>3, <1>4 DEF Bounded
<1>7. \/ \E p \in Writer : WriteByte(p)
      \/ \E p \in Reader : ReadByte(p) \/ ReadFault(p)
      \/ UNCHANGED <<nread, nwrite>>
  BY DEF Next, Write, Read, sys_write, WriteLocks, WriteFails, WriteFull, WriteSleeps,
         WriteDone, sys_read, ReadLocks, ReadEmpty, ReadSleeps, ReadStarts, ReadDone,
         fileclose, pipeclose, kill, pipe
<1>8. CASE UNCHANGED <<nread, nwrite>>
  BY <1>2, <1>8, <1>5, <1>6 DEF Bounded
<1> QED BY <1>5, <1>6, <1>7, <1>8

\* PipeInv holds in every state of a pipe.
THEOREM PipeInvariant == Spec => []PipeInv
<1>1. Init => PipeInv
  BY PipeInit
<1>2. PipeInv /\ [Next]_vars => PipeInv'
  <2> SUFFICES ASSUME PipeInv, [Next]_vars PROVE PipeInv'
    OBVIOUS
  <2>1. CASE Next
    BY <2>1, TypesKept, LockKept, EndsKept, SleepersKept, BoundedKept DEF PipeInv
  <2>2. CASE UNCHANGED vars
    BY <2>2 DEF vars, PipeInv, PipeTypes, LockHeld, EndsHeld, SleepersInv, Bounded,
                full, empty, InPipe
  <2> QED BY <2>1, <2>2
<1> QED BY <1>1, <1>2, PTL DEF Spec

\* pipeclose frees the page when both ends are closed, and then no process is
\* in a call on it or has it open: no use of a freed pipe, for any number of
\* processes that share the ends.
THEOREM FreedUnusedHolds == Spec => []FreedUnused
<1>1. PipeInv => FreedUnused
  BY DEF PipeInv, EndsHeld, FreedUnused, Proc
<1> QED BY <1>1, PipeInvariant, PTL

\* No wakeup is lost: a writer that sleeps has no room, and as long as no writer
\* is killed a reader that sleeps has nothing to read.
THEOREM SleepersMissNothingHolds == Spec => []SleepersMissNothing
<1>1. PipeInv => SleepersMissNothing
  BY PipeAssumption DEF PipeInv, LockHeld, Inside, SleepersInv, SleepersMissNothing,
     ReaderSleepsOnEmpty, Proc
<1> QED BY <1>1, PipeInvariant, PTL

-----------------------------------------------------------------------------
(* The pipe implements the bounded FIFO *)

\* Sequences of the same bytes are equal.
LEMMA SameSequence ==
  ASSUME NEW S, NEW s \in Seq(S), NEW t \in Seq(S), Len(s) = Len(t),
         \A k \in 1..Len(s) : s[k] = t[k]
  PROVE  s = t
OBVIOUS

\* The n bytes from index r on.
Contents(d, r, n) == [k \in 1..n |-> d[(r + k - 1) % PIPESIZE]]

\* The contents are a sequence of bytes of the length of the pipe's fill.
LEMMA ContentsSeq ==
  ASSUME NEW d \in [0..(PIPESIZE - 1) -> Byte], NEW r \in Nat, NEW n \in Nat
  PROVE  Contents(d, r, n) \in Seq(Byte) /\ Len(Contents(d, r, n)) = n
<1>1. PIPESIZE \in Nat \ {0}
  BY PipeAssumption
<1>2. \A k \in 1..n : (r + k - 1) % PIPESIZE \in 0..(PIPESIZE - 1)
  <2>1. TAKE k \in 1..n
  <2>2. r + k - 1 \in Nat
    OBVIOUS
  <2> QED BY <2>2, <1>1, ModDef
<1>3. Contents(d, r, n) \in [1..n -> Byte]
  BY <1>2 DEF Contents
<1> QED BY <1>3

\* The slot after the last byte is the one that nwrite points at.
LEMMA SlotOfWrite ==
  ASSUME NEW w \in 0..(UINT - 1), NEW r \in 0..(UINT - 1)
  PROVE  (r + Between(w, r)) % PIPESIZE = w % PIPESIZE
<1>1. UINT \in Nat /\ UINT % PIPESIZE = 0 /\ PIPESIZE \in Nat \ {0}
  BY PipeAssumption
<1>2. CASE r <= w
  <2>1. r + Between(w, r) = w
    BY <1>2, BetweenIs
  <2> QED BY <2>1
<1>3. CASE ~(r <= w)
  <2>1. r + Between(w, r) = w + UINT
    BY <1>1, <1>3, BetweenIs
  <2>2. w \in Nat
    BY <1>1
  <2>3. (w + UINT) % PIPESIZE = w % PIPESIZE
    BY <1>1, <2>2, ModPlus
  <2> QED BY <2>1, <2>3
<1> QED BY <1>2, <1>3

\* The slots after nread do not move when nread wraps around.
LEMMA SlotOfRead ==
  ASSUME NEW r \in 0..(UINT - 1), NEW j \in Nat
  PROVE  (((r + 1) % UINT) + j) % PIPESIZE = (r + 1 + j) % PIPESIZE
<1>1. UINT \in Nat /\ UINT % PIPESIZE = 0 /\ PIPESIZE \in Nat \ {0}
  BY PipeAssumption
<1>2. CASE r = UINT - 1
  <2>1. (r + 1) % UINT = 0 /\ r + 1 + j = j + UINT
    BY <1>1, <1>2, SuccIs
  <2>2. (j + UINT) % PIPESIZE = j % PIPESIZE
    BY <1>1, ModPlus
  <2> QED BY <2>1, <2>2
<1>3. CASE r # UINT - 1
  BY <1>3, SuccIs
<1> QED BY <1>2, <1>3

\* pi->data[pi->nwrite++ % PIPESIZE] = ch overwrites no byte that is still to
\* be read.
LEMMA FreshSlot ==
  ASSUME NEW w \in 0..(UINT - 1), NEW r \in 0..(UINT - 1), Between(w, r) < PIPESIZE,
         Between(w, r) \in Nat, NEW k \in 1..Between(w, r)
  PROVE  /\ (r + k - 1) % PIPESIZE \in 0..(PIPESIZE - 1)
         /\ (r + k - 1) % PIPESIZE # w % PIPESIZE
<1> DEFINE n == Between(w, r)
           a == r + k - 1
           d == n - k + 1
<1>1. UINT \in Nat /\ PIPESIZE \in Nat \ {0}
  BY PipeAssumption
<1>2. (r + n) % PIPESIZE = w % PIPESIZE
  BY SlotOfWrite
<1>3. a \in Nat /\ d \in 1..(PIPESIZE - 1) /\ a + d = r + n
  BY <1>1
<1>4. (a + d) % PIPESIZE # a % PIPESIZE /\ a % PIPESIZE \in 0..(PIPESIZE - 1)
  <2> HIDE DEF a, d
  <2> QED BY <1>1, <1>3, ModApart, ModDef
<1> QED BY <1>2, <1>3, <1>4

\* pi->data[pi->nread++ % PIPESIZE] takes the oldest byte.
LEMMA GetTails ==
  ASSUME NEW d \in [0..(PIPESIZE - 1) -> Byte], NEW r \in 0..(UINT - 1),
         NEW n \in Nat \ {0}
  PROVE  Contents(d, (r + 1) % UINT, n - 1) = Tail(Contents(d, r, n))
<1> DEFINE r1 == (r + 1) % UINT
<1>1. UINT \in Nat /\ PIPESIZE \in Nat \ {0} /\ r1 \in 0..(UINT - 1)
  BY PipeAssumption, SuccIs
<1>2. ASSUME NEW k \in 1..(n - 1)
      PROVE  (r1 + k - 1) % PIPESIZE = (r + (k + 1) - 1) % PIPESIZE
  <2>1. k - 1 \in Nat /\ r + 1 + (k - 1) = r + (k + 1) - 1 /\ r1 + (k - 1) = r1 + k - 1
    BY <1>1
  <2> QED BY <2>1, SlotOfRead
<1> HIDE DEF r1
<1>3. /\ Contents(d, r, n) \in Seq(Byte) /\ Len(Contents(d, r, n)) = n
      /\ Contents(d, r1, n - 1) \in Seq(Byte) /\ Len(Contents(d, r1, n - 1)) = n - 1
  <2>1. r \in Nat /\ r1 \in Nat /\ n \in Nat /\ n - 1 \in Nat
    BY <1>1
  <2>2. Contents(d, r, n) \in Seq(Byte) /\ Len(Contents(d, r, n)) = n
    BY <2>1, ContentsSeq
  <2>3. Contents(d, r1, n - 1) \in Seq(Byte) /\ Len(Contents(d, r1, n - 1)) = n - 1
    BY <2>1, ContentsSeq
  <2> QED BY <2>2, <2>3
<1>4. /\ Tail(Contents(d, r, n)) \in Seq(Byte) /\ Len(Tail(Contents(d, r, n))) = n - 1
      /\ \A k \in 1..(n - 1) : Tail(Contents(d, r, n))[k] = Contents(d, r, n)[k + 1]
  BY <1>3
<1>5. ASSUME NEW k \in 1..(n - 1)
      PROVE  Contents(d, r1, n - 1)[k] = Tail(Contents(d, r, n))[k]
  <2>1. Contents(d, r1, n - 1)[k] = d[(r1 + k - 1) % PIPESIZE]
    BY DEF Contents
  <2>2. Contents(d, r, n)[k + 1] = d[(r + (k + 1) - 1) % PIPESIZE]
    BY DEF Contents
  <2> QED BY <2>1, <2>2, <1>2, <1>4
<1>6. Contents(d, r1, n - 1) = Tail(Contents(d, r, n))
  BY <1>3, <1>4, <1>5, SameSequence
<1> QED BY <1>6 DEF r1

\* A step of the pipe that the two users of the FIFO do not see.
Unseen == UNCHANGED <<Contents(data, nread, InPipe), readopen, writeopen>>

\* A writer's loop iteration puts a byte.
LEMMA WriteSimulation ==
  ASSUME PipeInv, Next, NEW p \in Writer, WriteByte(p)
  PROVE  \E ch \in Byte : Abs!Put(ch)
<1>1. PICK ch \in Byte : data' = [data EXCEPT ![nwrite % PIPESIZE] = ch]
  BY DEF WriteByte
<1>2. /\ nread \in 0..(UINT - 1) /\ nwrite \in 0..(UINT - 1)
      /\ data \in [0..(PIPESIZE - 1) -> Byte]
      /\ PIPESIZE \in Nat \ {0} /\ UINT \in Nat
  BY PipeAssumption DEF PipeInv, PipeTypes
<1>3. InPipe = Between(nwrite, nread) /\ InPipe \in Nat
  BY <1>2, FullAndEmpty DEF PipeInv, InPipe, Between
<1>4. InPipe < PIPESIZE
  BY <1>2, <1>3, FullAndEmpty DEF PipeInv, Bounded, WriteByte
<1>5. InPipe' = InPipe + 1 /\ nread' = nread
  BY BoundedKept DEF PipeInv, WriteByte
<1> DEFINE s == Contents(data, nread, InPipe)
           t == Contents(data', nread, InPipe + 1)
<1>6. t = Append(s, ch)
  <2>1. nwrite % PIPESIZE \in 0..(PIPESIZE - 1)
    BY <1>2
  <2>2. nread \in Nat /\ InPipe + 1 \in Nat
    BY <1>2, <1>3
  <2>3. /\ data' \in [0..(PIPESIZE - 1) -> Byte]
        /\ data'[nwrite % PIPESIZE] = ch
        /\ \A i \in 0..(PIPESIZE - 1) : i # nwrite % PIPESIZE => data'[i] = data[i]
    BY <1>1, <1>2, <2>1
  <2>4. t[InPipe + 1] = ch
    <3>1. nread + (InPipe + 1) - 1 = nread + InPipe /\ InPipe + 1 \in 1..(InPipe + 1)
      BY <1>2, <1>3
    <3>2. (nread + InPipe) % PIPESIZE = nwrite % PIPESIZE
      BY <1>2, <1>3, SlotOfWrite
    <3> QED BY <3>1, <3>2, <2>3 DEF Contents
  <2>5. ASSUME NEW k \in 1..InPipe PROVE t[k] = s[k]
    <3>1. /\ (nread + k - 1) % PIPESIZE \in 0..(PIPESIZE - 1)
          /\ (nread + k - 1) % PIPESIZE # nwrite % PIPESIZE
      BY <1>2, <1>3, <1>4, FreshSlot
    <3>2. data'[(nread + k - 1) % PIPESIZE] = data[(nread + k - 1) % PIPESIZE]
      BY <3>1, <2>3
    <3>3. k \in 1..(InPipe + 1)
      BY <1>3
    <3> QED BY <3>2, <3>3 DEF Contents
  <2>6. s \in Seq(Byte) /\ Len(s) = InPipe /\ t \in Seq(Byte) /\ Len(t) = InPipe + 1
    BY <2>2, <2>3, <1>2, <1>3, ContentsSeq
  <2> HIDE DEF s, t
  <2> QED BY <2>4, <2>6, <2>5, <1>3
<1>7. Len(Contents(data, nread, InPipe)) < PIPESIZE
  <2>1. nread \in Nat
    BY <1>2
  <2> QED BY <2>1, <1>2, <1>3, <1>4, ContentsSeq
<1>8. readopen /\ writeopen /\ UNCHANGED <<readopen, writeopen>>
  BY PipeAssumption DEF PipeInv, EndsHeld, LockHeld, Inside, WriteByte, In, Proc
<1>9. Abs!Put(ch)
  BY <1>5, <1>6, <1>7, <1>8 DEF Abs!Put, Contents
<1> QED BY <1>9

\* A reader's loop iteration gets one, also when copyout then fails.
LEMMA ReadSimulation ==
  ASSUME PipeInv, Next, NEW p \in Reader, ReadByte(p) \/ ReadFault(p)
  PROVE  Abs!Get
<1>1. /\ nread \in 0..(UINT - 1) /\ nwrite \in 0..(UINT - 1)
      /\ data \in [0..(PIPESIZE - 1) -> Byte]
      /\ PIPESIZE \in Nat \ {0} /\ UINT \in Nat
  BY PipeAssumption DEF PipeInv, PipeTypes
<1>2. InPipe \in Nat \ {0}
  BY <1>1, FullAndEmpty DEF PipeInv, ReadByte, ReadFault
<1>3. InPipe' = InPipe - 1 /\ nread' = (nread + 1) % UINT /\ data' = data
  BY BoundedKept DEF PipeInv, ReadByte, ReadFault
<1>4. Contents(data', nread', InPipe') = Tail(Contents(data, nread, InPipe))
  BY <1>1, <1>2, <1>3, GetTails
<1>5. Contents(data, nread, InPipe) # <<>>
  <2>1. nread \in Nat /\ InPipe \in Nat
    BY <1>1, <1>2
  <2>2. Len(Contents(data, nread, InPipe)) = InPipe
    BY <2>1, <1>1, ContentsSeq
  <2> QED BY <2>2, <1>2
<1>6. readopen /\ UNCHANGED <<readopen, writeopen>>
  BY PipeAssumption DEF PipeInv, EndsHeld, LockHeld, Inside, ReadByte, ReadFault, In, Proc
<1> QED BY <1>4, <1>5, <1>6 DEF Abs!Get, Contents

\* pipeclose closes its end, once.
LEMMA CloseSimulation ==
  ASSUME PipeInv, NEW p \in Proc, pipeclose(p)
  PROVE  Abs!CloseRead \/ Abs!CloseWrite
<1>1. UNCHANGED <<data, nread, nwrite>> /\ InPipe' = InPipe
  BY DEF pipeclose, InPipe
<1>2. UNCHANGED Contents(data, nread, InPipe)
  BY <1>1 DEF Contents
<1>3. CASE p \in Writer
  <2>1. writeopen /\ writeopen' = FALSE /\ readopen' = readopen
    BY <1>3 DEF pipeclose, PipeInv, EndsHeld
  <2> QED BY <2>1, <1>2 DEF Abs!CloseWrite, Contents
<1>4. CASE p \notin Writer
  <2>1. p \in Reader
    BY <1>4 DEF Proc
  <2>2. readopen /\ readopen' = FALSE /\ writeopen' = writeopen
    BY <1>4, <2>1 DEF pipeclose, PipeInv, EndsHeld
  <2> QED BY <2>2, <1>2 DEF Abs!CloseRead, Contents
<1> QED BY <1>3, <1>4

\* The pipe is a bounded FIFO: bytes come out in the order they went in, none
\* is lost, doubled or overwritten, through any wrap-around of the indices,
\* kill, failing copy and close.
THEOREM Refinement == Spec => ImplementsFifo
<1>1. Init => Abs!Init
  <2> SUFFICES ASSUME Init PROVE Abs!Init
    OBVIOUS
  <2>1. InPipe = 0
    BY PipeInit, FullAndEmpty DEF PipeInv, Init, empty
  <2> QED BY <2>1 DEF Init, Abs!Init
<1>2. PipeInv /\ [Next]_vars => [Abs!Next]_(Abs!vars)
  <2> SUFFICES ASSUME PipeInv, [Next]_vars PROVE Abs!Next \/ Unseen
    BY DEF Abs!vars, Unseen, Contents
  <2>1. CASE Next /\ \E p \in Writer : WriteByte(p)
    BY <2>1, WriteSimulation DEF Abs!Next
  <2>2. CASE Next /\ \E p \in Reader : ReadByte(p) \/ ReadFault(p)
    BY <2>2, ReadSimulation DEF Abs!Next
  <2>3. CASE \E p \in Proc : pipeclose(p)
    BY <2>3, CloseSimulation DEF Abs!Next
  <2>4. CASE UNCHANGED pipe
    BY <2>4 DEF pipe, Unseen, Contents, InPipe
  <2>5. \/ Next /\ \E p \in Writer : WriteByte(p)
        \/ Next /\ \E p \in Reader : ReadByte(p) \/ ReadFault(p)
        \/ \E p \in Proc : pipeclose(p)
        \/ UNCHANGED pipe
    BY DEF Next, Write, Read, sys_write, WriteLocks, WriteFails, WriteFull, WriteSleeps,
           WriteDone, sys_read, ReadLocks, ReadEmpty, ReadSleeps, ReadStarts, ReadDone,
           fileclose, kill, pipe, vars
  <2> QED BY <2>1, <2>2, <2>3, <2>4, <2>5
<1> QED BY <1>1, <1>2, PipeInvariant, PTL DEF Spec, ImplementsFifo, Abs!Spec
=============================================================================
