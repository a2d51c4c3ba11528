----------------------------- MODULE MCProcLive -----------------------------
(* Proc with fairness for TLC. *)
EXTENDS Proc

FairSpec == Spec /\ Fairness
=============================================================================
