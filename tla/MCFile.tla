------------------------------- MODULE MCFile -------------------------------
(* Instances of File for TLC. *)
EXTENDS File, TLC

\* Memory blocks are alike, and so are all processes but init.
Blocks == Permutations(File) \cup Permutations(Page) \cup Permutations(Proc \ {init})
=============================================================================
