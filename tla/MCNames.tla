------------------------------ MODULE MCNames -------------------------------
(***************************************************************************)
(* Names and the shell, which parses a line or runs one, for TLC; a        *)
(* behaviour is of one of the three.                                       *)
(***************************************************************************)
EXTENDS Names, ShRun

CONSTANT Parts

VARIABLE part

OnePath(op, path) == [op |-> op, path |-> path, new |-> <<>>]

MCCalls ==
  {OnePath("mkdir", <<"a">>), OnePath("chdir", <<"a">>), OnePath("unlink", <<"a">>),
   OnePath("create", <<"a", "b">>), OnePath("unlink", <<"a", "b">>),
   [op |-> "link", path |-> <<"a", "b">>, new |-> <<"/", "b">>],
   OnePath("open", <<"b">>), OnePath("unlink", <<"/">>)}

\* A process may walk up from a directory that another has removed.
DotDotCalls ==
  {OnePath("mkdir", <<"a">>), OnePath("unlink", <<"a">>),
   OnePath("chdir", <<"a">>), OnePath("chdir", <<"..">>)}

\* Pipelines, a list on either side of one, a job in the background, redirections.
MCLines ==
  {<<"a", "|", "a">>,
   <<"a", "|", "a", "|", "a">>,
   <<"(", "a", ";", "a", ")", "|", "a">>,
   <<"a", "|", "(", "a", ">", "a", ";", "a", ")">>,
   <<"a", "|", "a", "&", ";", "a", "<", "a">>,
   <<"(", "a", "&", ")", "|", "a">>}

Alike == Permutations(Proc)

Init ==
  /\ NamesInit
  /\ part \in Parts
  /\ \/ part = "parse" /\ ShParseInit /\ sh = <<>>
     \/ part = "run" /\ ShRunInit
     \/ part = "names" /\ shline = <<>> /\ sh = <<>>

\* Parsing a line changes nothing, and a line that was run comes to its end; in
\* Names somebody can always take a step.
Next ==
  \/ part = "names" /\ NamesNext /\ UNCHANGED <<part, shVars>>
  \/ part = "run" /\ ShNext /\ UNCHANGED <<part, nameVars>>
  \/ part \in {"parse", "run"} /\ UNCHANGED <<part, nameVars, shVars>>

Spec == Init /\ [][Next]_<<part, nameVars, shVars>>
=============================================================================
