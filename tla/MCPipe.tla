------------------------------- MODULE MCPipe -------------------------------
(***************************************************************************)
(* The data behind open files for TLC, pipes and the blocks of inodes; a   *)
(* behaviour is of one of them.                                            *)
(***************************************************************************)
EXTENDS Pipe, FileData, TLC

CONSTANTS i1, i2, o1, o2, o3, v1, v2,
          MaxCalls,   \* bound: calls of write, read and open in a behaviour
          Parts

VARIABLES part, calls

\* Two open files of one inode, with their own offsets: o3 writes byte by byte,
\* so that o1 finds sizes and offsets in the middle of a block.
MCip == [f \in OpenFile |-> IF f = o2 THEN i2 ELSE i1]
MCOpens == {<<o1, TRUE>>, <<o2, TRUE>>, <<o3, FALSE>>}
MCReads == {<<o1, 7>>}
MCWrites == {<<o1, v1, 7>>, <<o3, v2, 1>>, <<o2, v2, 2>>}

Alike == Permutations(FdProc)

\* A pipe that is not looked at rests in one state.
DataInit ==
  /\ Init /\ FdInit /\ part \in Parts /\ calls = 0
  /\ part = "data" => \A k \in DOMAIN data : data[k] = CHOOSE ch \in Byte : TRUE

DataNext ==
  \/ part = "pipe" /\ Next /\ UNCHANGED <<part, calls, fdVars>>
  \/ /\ part = "data" /\ UNCHANGED <<part, vars>>
     /\ \E p \in FdProc : \/ calls < MaxCalls /\ calls' = calls + 1 /\ FdCall(p)
                          \/ FdStep(p) /\ UNCHANGED calls

DataSpec == DataInit /\ [][DataNext]_<<part, calls, vars, fdVars>>
=============================================================================
