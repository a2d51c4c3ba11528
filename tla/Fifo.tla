-------------------------------- MODULE Fifo --------------------------------
(***************************************************************************)
(* What a pipe promises: a bounded first-in first-out queue of bytes with  *)
(* two ends, each of which is closed once.  Nothing is put once the read   *)
(* end is closed, and nothing moves once its own end is closed.            *)
(***************************************************************************)
EXTENDS Naturals, Sequences

CONSTANTS Byte, Capacity

VARIABLES queue, readEnd, writeEnd

vars == <<queue, readEnd, writeEnd>>

Init == queue = <<>> /\ readEnd = TRUE /\ writeEnd = TRUE

Put(d) ==
  /\ readEnd /\ writeEnd
  /\ Len(queue) < Capacity
  /\ queue' = Append(queue, d)
  /\ UNCHANGED <<readEnd, writeEnd>>

Get ==
  /\ readEnd
  /\ queue # <<>>
  /\ queue' = Tail(queue)
  /\ UNCHANGED <<readEnd, writeEnd>>

CloseRead == readEnd /\ readEnd' = FALSE /\ UNCHANGED <<queue, writeEnd>>

CloseWrite == writeEnd /\ writeEnd' = FALSE /\ UNCHANGED <<queue, readEnd>>

Next == (\E d \in Byte : Put(d)) \/ Get \/ CloseRead \/ CloseWrite

Spec == Init /\ [][Next]_vars
=============================================================================
