------------------------------- MODULE MCHarts -------------------------------
(* Instances of Proc and of Trap for TLC; a behaviour is of one of the two. *)
EXTENDS Proc, Trap, TLC

VARIABLE part

Harts == Permutations(Hart)

HartsInit == part \in {"proc", "trap"} /\ Init /\ TrapInit
HartsNext ==
  \/ part = "proc" /\ Next /\ UNCHANGED <<part, trapVars>>
  \/ part = "trap" /\ TrapNext /\ UNCHANGED <<part, vars>>
HartsSpec == HartsInit /\ [][HartsNext]_<<part, vars, trapVars>>
=============================================================================
