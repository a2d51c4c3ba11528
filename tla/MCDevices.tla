----------------------------- MODULE MCDevices ------------------------------
(***************************************************************************)
(* The drivers for TLC; a behaviour is of one of them, and the others rest *)
(* in their initial states, where nothing is due.                          *)
(***************************************************************************)
EXTENDS VirtioDisk, Console, Uart

CONSTANT p2

VARIABLE part

DevicesInit ==
  /\ DiskInit /\ ConsInit /\ UartInit
  /\ part \in {"disk", "console", "uart", "writers"}

\* The UART has one writer among echoes and printf, or two alone.
UartPart ==
  \/ part = "uart" /\ u'[p2].pc = "idle"
  \/ part = "writers" /\ u'[Handler].echo = 0 /\ u'[Printer].echo = 0

DevicesNext ==
  \/ part = "disk" /\ DiskNext /\ UNCHANGED <<part, consVars, uartVars>>
  \/ part = "console" /\ ConsNext /\ UNCHANGED <<part, diskVars, uartVars>>
  \/ UartNext /\ UartPart /\ UNCHANGED <<part, diskVars, consVars>>

DevicesSpec ==
  /\ DevicesInit /\ [][DevicesNext]_<<part, diskVars, consVars, uartVars>>
  /\ DiskFairness /\ UartFairness
=============================================================================
