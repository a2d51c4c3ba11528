-------------------------------- MODULE Uart --------------------------------
(***************************************************************************)
(* Output to the UART, kernel/uart.c: uartputc fills a ring under          *)
(* uart_tx_lock and sleeps while it is full; uartstart, called there and   *)
(* from the interrupt handler, empties it into the transmit register;      *)
(* uartputc_sync, which echoes input from the handler and prints for       *)
(* printf on another hart, goes past the ring and past the lock.  The      *)
(* register is tested in one step and written in another.  The device      *)
(* takes what was written as a queue (its FIFO is enabled), reports idle   *)
(* when that is empty, and interrupts then.                                *)
(***************************************************************************)
EXTENDS Naturals, Sequences, FiniteSets

CONSTANTS Writer,             \* processes in consolewrite
          Handler,            \* the hart that runs the interrupt handler
          Printer,            \* the hart that is in printf, with pr.lock
          UART_TX_BUF_SIZE,
          TxWrap,             \* the range of uart_tx_w and uart_tx_r (2^64 in the code)
          Nobody

ASSUME UartAssumption ==
  UART_TX_BUF_SIZE \in Nat \ {0} /\ TxWrap % UART_TX_BUF_SIZE = 0 /\ TxWrap > UART_TX_BUF_SIZE

Numbers == UART_TX_BUF_SIZE + 2   \* characters carry a number modulo this
Next1(k) == (k + 1) % Numbers

VARIABLES
  tx,      \* uart_tx_buf, uart_tx_w, uart_tx_r
  txlock,  \* the holder of uart_tx_lock
  thr,     \* the transmit FIFO
  irq,     \* the interrupt is pending
  u,       \* actor -> [pc, echo], echo: characters for uartputc_sync
  wrote,   \* history: writer -> number of its last character in the ring
  shown    \* history: writer -> number of its last one that the device sent

uartVars == <<tx, txlock, thr, irq, u, wrote, shown>>

Actor == Writer \union {Handler, Printer}

UartInit ==
  /\ tx = [buf |-> [i \in 0..(UART_TX_BUF_SIZE - 1) |-> <<Nobody, 0>>], w |-> 0, r |-> 0]
  /\ txlock = Nobody
  /\ thr = <<>>
  /\ irq = FALSE
  /\ u = [a \in Actor |-> [pc |-> "idle", echo |-> 0]]
  /\ wrote = [p \in Writer |-> 0]
  /\ shown = [p \in Writer |-> 0]

Full == tx.w = (tx.r + UART_TX_BUF_SIZE) % TxWrap

\* wakeup(&uart_tx_r).
WakeWriters(v) == [a \in Actor |-> IF v[a].pc = "asleep" THEN [v[a] EXCEPT !.pc = "put"] ELSE v[a]]

-----------------------------------------------------------------------------
(* consolewrite and uartputc *)

consolewrite(p) ==
  /\ u[p].pc = "idle"
  /\ u' = [u EXCEPT ![p].pc = "put"]
  /\ UNCHANGED <<tx, txlock, thr, irq, wrote, shown>>

UartFull(p) ==
  /\ u[p].pc = "put" /\ txlock = Nobody
  /\ Full
  /\ u' = [u EXCEPT ![p].pc = "asleep"]
  /\ UNCHANGED <<tx, txlock, thr, irq, wrote, shown>>

\* Mutant of uartputc: the test for a full ring is one too late.
UartputcOver(p) ==
  /\ u[p].pc = "put" /\ txlock = Nobody
  /\ tx' = [tx EXCEPT !.buf[tx.w % UART_TX_BUF_SIZE] = <<p, Next1(wrote[p])>>, !.w = (@ + 1) % TxWrap]
  /\ wrote' = [wrote EXCEPT ![p] = Next1(@)]
  /\ txlock' = p
  /\ u' = [u EXCEPT ![p].pc = "start"]
  /\ UNCHANGED <<thr, irq, shown>>

\* The character is stored; uartstart follows, under the lock.
uartputc(p) ==
  /\ u[p].pc = "put" /\ txlock = Nobody
  /\ ~Full
  /\ tx' = [tx EXCEPT !.buf[tx.w % UART_TX_BUF_SIZE] = <<p, Next1(wrote[p])>>, !.w = (@ + 1) % TxWrap]
  /\ wrote' = [wrote EXCEPT ![p] = Next1(@)]
  /\ txlock' = p
  /\ u' = [u EXCEPT ![p].pc = "start"]
  /\ UNCHANGED <<thr, irq, shown>>

-----------------------------------------------------------------------------
(* uartstart *)

\* The ring is empty or the device is busy: return, release.
StartEnds(a) ==
  /\ u[a].pc = "start"
  /\ tx.w = tx.r \/ thr # <<>>
  /\ txlock' = Nobody
  /\ u' = [u EXCEPT ![a].pc = "idle"]
  /\ UNCHANGED <<tx, thr, irq, wrote, shown>>

StartIdle(a) ==
  /\ u[a].pc = "start"
  /\ tx.w # tx.r /\ thr = <<>>
  /\ u' = [u EXCEPT ![a].pc = "send"]
  /\ UNCHANGED <<tx, txlock, thr, irq, wrote, shown>>

\* A character goes from the ring (where its place is dead) to the register,
\* the writers are woken, and the loop goes round.
uartstart(a) ==
  /\ u[a].pc = "send"
  /\ thr' = Append(thr, tx.buf[tx.r % UART_TX_BUF_SIZE])
  /\ tx' = [tx EXCEPT !.r = (@ + 1) % TxWrap, !.buf[tx.r % UART_TX_BUF_SIZE] = <<Nobody, 0>>]
  /\ u' = [WakeWriters(u) EXCEPT ![a].pc = "start"]
  /\ irq' = FALSE
  /\ UNCHANGED <<txlock, wrote, shown>>

-----------------------------------------------------------------------------
(* uartintr *)

\* The handler is called for input, whose echo has k characters, or because
\* the device is ready.
uartintr(input, k) ==
  /\ u[Handler].pc = "idle"
  /\ input \/ irq
  /\ u' = [u EXCEPT ![Handler] = [pc |-> "echo", echo |-> k]]
  /\ irq' = FALSE
  /\ UNCHANGED <<tx, txlock, thr, wrote, shown>>

\* printf has a character for consputc.  pr.lock lets one hart print at a time.
printf ==
  /\ u[Printer].echo = 0
  /\ u' = [u EXCEPT ![Printer] = [pc |-> "echo", echo |-> 1]]
  /\ UNCHANGED <<tx, txlock, thr, irq, wrote, shown>>

\* uartputc_sync: spin until the device is idle,
SyncIdle(a) ==
  /\ u[a].pc = "echo" /\ u[a].echo > 0
  /\ thr = <<>>
  /\ u' = [u EXCEPT ![a].pc = "sync"]
  /\ UNCHANGED <<tx, txlock, thr, irq, wrote, shown>>

\* and write, without uart_tx_lock.
uartputc_sync(a) ==
  /\ u[a].pc = "sync"
  /\ thr' = Append(thr, <<Nobody, 0>>)
  /\ irq' = FALSE
  /\ u' = [u EXCEPT ![a] = [pc |-> "echo", echo |-> @.echo - 1]]
  /\ UNCHANGED <<tx, txlock, wrote, shown>>

\* Mutant of IntrSends: the handler only looks for input.
IntrReturns ==
  /\ u[Handler].pc = "echo" /\ u[Handler].echo = 0
  /\ u' = [u EXCEPT ![Handler].pc = "idle"]
  /\ UNCHANGED <<tx, txlock, thr, irq, wrote, shown>>

\* After the input, uartstart under the lock.
IntrSends ==
  /\ u[Handler].pc = "echo" /\ u[Handler].echo = 0
  /\ txlock = Nobody
  /\ txlock' = Handler
  /\ u' = [u EXCEPT ![Handler].pc = "start"]
  /\ UNCHANGED <<tx, thr, irq, wrote, shown>>

-----------------------------------------------------------------------------
\* The device sends a character; when it has sent all, it interrupts.
UartSends ==
  /\ thr # <<>>
  /\ thr' = Tail(thr)
  /\ irq' = (Len(thr) = 1)
  /\ shown' = [p \in Writer |-> IF Head(thr)[1] = p THEN Head(thr)[2] ELSE shown[p]]
  /\ UNCHANGED <<tx, txlock, u, wrote>>

Echoes == {0, 1, 3}   \* nothing, a character, or backspace, blank, backspace

UartSteps ==
  \/ \E p \in Writer : UartFull(p) \/ uartputc(p)
  \/ \E a \in Actor : StartEnds(a) \/ StartIdle(a) \/ uartstart(a)
  \/ \E a \in {Handler, Printer} : SyncIdle(a) \/ uartputc_sync(a)
  \/ uartintr(FALSE, 0) \/ IntrSends \/ UartSends

UartNext ==
  \/ \E p \in Writer : consolewrite(p)
  \/ \E k \in Echoes : uartintr(TRUE, k)
  \/ printf
  \/ UartSteps

\* The device sends, its interrupts are taken, and whoever holds uart_tx_lock
\* goes on; the handler gets that lock in the end.
UartFairness ==
  /\ WF_uartVars(UartSends) /\ WF_uartVars(uartintr(FALSE, 0))
  /\ \A a \in {Handler, Printer} : WF_uartVars(SyncIdle(a) \/ uartputc_sync(a))
  /\ SF_uartVars(IntrSends)
  /\ WF_uartVars(\E a \in Actor : StartEnds(a) \/ StartIdle(a) \/ uartstart(a))

-----------------------------------------------------------------------------
(* Properties *)

\* The ring, oldest character first.
TxRing == [k \in 1..((tx.w + TxWrap - tx.r) % TxWrap) |->
             tx.buf[(tx.r + k - 1) % UART_TX_BUF_SIZE]]

\* Between what a writer has stored and what the terminal has shown, its
\* characters are in the register and the ring, in order, none lost and none
\* twice, whichever of uartputc and uartintr runs uartstart and however echoes
\* and printf come in between.  The device never holds more than one character
\* of the ring, one echo and one of printf, though these three test LSR_TX_IDLE
\* before they write and uartputc_sync does so outside uart_tx_lock; and a
\* writer sleeps only while the ring is full.
OutputInOrder ==
  /\ \A p \in Writer :
       LET own == SelectSeq(thr \o TxRing, LAMBDA c : c[1] = p)
       IN /\ (shown[p] + Len(own)) % Numbers = wrote[p]
          /\ \A k \in DOMAIN own : own[k][2] = (shown[p] + k) % Numbers
          /\ u[p].pc = "asleep" => Full
  /\ Len(thr) <= 3

\* What is in the ring is shown once input and printf pause (they go first): no
\* character stays there because another has taken the register or because the
\* interrupt came too early.  (Every character is number 0 for some start.)
OutputShown ==
  <>[](u[Handler].echo = 0 /\ u[Printer].echo = 0) => \A p \in Writer : wrote[p] = 0 ~> shown[p] = 0

=============================================================================
