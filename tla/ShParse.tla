------------------------------- MODULE ShParse -------------------------------
(***************************************************************************)
(* The parser of the shell (user/sh.c), on lines of characters: "a" stands *)
(* for any character of a word, " " for white space.  A word is the pair   *)
(* <<q, eq>> of its first position and the one after its last; a command   *)
(* tree is built by the constructors below.  A line the shell panics on    *)
(* parses to Panic.                                                        *)
(***************************************************************************)
EXTENDS Naturals, Sequences, FiniteSets, SequencesExt

CONSTANTS MAXARGS, MaxLine   \* MaxLine bounds the lines looked at

ShChar == {" ", "a", "<", ">", "|", "&", ";", "(", ")"}
Symbols == ShChar \ {" ", "a"}

VARIABLE shline   \* the line typed

ShParseInit == shline \in UNION {[1..n -> ShChar] : n \in 0..MaxLine}

-----------------------------------------------------------------------------
(* Constructors *)

execcmd(argv) == [type |-> "EXEC", argv |-> argv]
redircmd(cmd, redir) == [type |-> "REDIR", cmd |-> cmd, mode |-> redir.mode, file |-> redir.file]
pipecmd(left, right) == [type |-> "PIPE", left |-> left, right |-> right]
listcmd(left, right) == [type |-> "LIST", left |-> left, right |-> right]
backcmd(cmd) == [type |-> "BACK", cmd |-> cmd]

\* A result: the command read so far and the position after it.
Ok(at, cmd) == [ok |-> TRUE, at |-> at, cmd |-> cmd]
Panic == [ok |-> FALSE, at |-> 0, cmd |-> execcmd(<<>>)]

\* redirs around cmd, the first one innermost.
RECURSIVE Around(_, _)
Around(cmd, redirs) ==
  IF redirs = <<>> THEN cmd ELSE Around(redircmd(cmd, Head(redirs)), Tail(redirs))

-----------------------------------------------------------------------------
(* Tokens *)

Ch(s, i) == IF i > Len(s) THEN "" ELSE s[i]

RECURSIVE SkipSpace(_, _)
SkipSpace(s, i) == IF Ch(s, i) = " " THEN SkipSpace(s, i + 1) ELSE i

RECURSIVE WordEnd(_, _)
WordEnd(s, i) == IF Ch(s, i) = "a" THEN WordEnd(s, i + 1) ELSE i

\* The token at q, where there is no white space.
TokenAt(s, q) ==
  LET c == Ch(s, q)
      Tok(ret, eq) == [ret |-> ret, word |-> <<q, eq>>, next |-> SkipSpace(s, eq)]
  IN CASE c = "" -> Tok("", q)
       [] c = "a" -> Tok("a", WordEnd(s, q))
       [] c = ">" /\ Ch(s, q + 1) = ">" -> Tok("+", q + 2)
       [] OTHER -> Tok(c, q + 1)
gettoken(s, i) == TokenAt(s, SkipSpace(s, i))

peek(s, i, toks) == Ch(s, SkipSpace(s, i)) \in toks

-----------------------------------------------------------------------------
(* Parsing *)

\* parseredirs from i on: the redirections read, added to redirs.
RECURSIVE parseredirs(_, _, _), RedirFile(_, _, _, _)
parseredirs(s, i, redirs) ==
  IF ~peek(s, i, {"<", ">"}) THEN [ok |-> TRUE, at |-> i, redirs |-> redirs]
  ELSE RedirFile(s, gettoken(s, i).ret, gettoken(s, gettoken(s, i).next), redirs)
RedirFile(s, tok, file, redirs) ==
  IF file.ret # "a" THEN [ok |-> FALSE, at |-> 0, redirs |-> redirs]
  ELSE parseredirs(s, file.next, Append(redirs, [mode |-> tok, file |-> file.word]))

RECURSIVE parseline(_, _), LineRest(_, _), LineList(_, _), parsepipe(_, _), PipeRest(_, _),
          PipeRight(_, _), parseexec(_, _), ExecArgs(_, _, _), ExecArg(_, _, _, _),
          parseblock(_, _), BlockEnd(_, _), BlockRedirs(_, _)

parseline(s, i) == LineRest(s, parsepipe(s, i))

\* Mutant of LineRest: at most one &.
LineRestOnce(s, r) ==
  IF ~r.ok THEN r
  ELSE IF peek(s, r.at, {"&"}) THEN Ok(gettoken(s, r.at).next, backcmd(r.cmd))
  ELSE IF peek(s, r.at, {";"}) THEN LineList(r.cmd, parseline(s, gettoken(s, r.at).next))
  ELSE r

\* The & and ; after the pipeline r.
LineRest(s, r) ==
  IF ~r.ok THEN r
  ELSE IF peek(s, r.at, {"&"}) THEN LineRest(s, Ok(gettoken(s, r.at).next, backcmd(r.cmd)))
  ELSE IF peek(s, r.at, {";"}) THEN LineList(r.cmd, parseline(s, gettoken(s, r.at).next))
  ELSE r
LineList(left, r) == IF r.ok THEN Ok(r.at, listcmd(left, r.cmd)) ELSE Panic

parsepipe(s, i) == PipeRest(s, parseexec(s, i))
PipeRest(s, r) ==
  IF r.ok /\ peek(s, r.at, {"|"}) THEN PipeRight(r.cmd, parsepipe(s, gettoken(s, r.at).next)) ELSE r
PipeRight(left, r) == IF r.ok THEN Ok(r.at, pipecmd(left, r.cmd)) ELSE Panic

parseblock(s, i) == BlockEnd(s, parseline(s, gettoken(s, i).next))
BlockEnd(s, r) ==
  IF ~r.ok \/ ~peek(s, r.at, {")"}) THEN Panic
  ELSE BlockRedirs(r.cmd, parseredirs(s, gettoken(s, r.at).next, <<>>))
BlockRedirs(cmd, r) == IF r.ok THEN Ok(r.at, Around(cmd, r.redirs)) ELSE Panic

parseexec(s, i) ==
  IF peek(s, i, {"("}) THEN parseblock(s, i)
  ELSE ExecArgs(s, <<>>, parseredirs(s, i, <<>>))

\* The loop of parseexec, with argv and the redirections r so far.
ExecArgs(s, argv, r) ==
  IF ~r.ok THEN Panic
  ELSE IF peek(s, r.at, {"|", ")", "&", ";"}) THEN Ok(r.at, Around(execcmd(argv), r.redirs))
  ELSE ExecArg(s, argv, r, gettoken(s, r.at))
ExecArg(s, argv, r, tok) ==
  IF tok.ret = "" THEN Ok(r.at, Around(execcmd(argv), r.redirs))
  ELSE IF tok.ret # "a" \/ Len(argv) + 1 >= MAXARGS THEN Panic
  ELSE ExecArgs(s, Append(argv, tok.word), parseredirs(s, tok.next, r.redirs))

Leftovers(s, r) == IF r.ok /\ SkipSpace(s, r.at) <= Len(s) THEN Panic ELSE r
parsecmd(s) == Leftovers(s, parseline(s, 1))

\* The positions that nulterminate sets to NUL.
RECURSIVE nulterminate(_)
nulterminate(cmd) ==
  CASE cmd.type = "EXEC" -> {cmd.argv[k][2] : k \in 1..Len(cmd.argv)}
    [] cmd.type = "REDIR" -> nulterminate(cmd.cmd) \union {cmd.file[2]}
    [] cmd.type \in {"PIPE", "LIST"} -> nulterminate(cmd.left) \union nulterminate(cmd.right)
    [] cmd.type = "BACK" -> nulterminate(cmd.cmd)

-----------------------------------------------------------------------------
(* The grammar, by itself *)

\* The tokens of a line: every token with its place.
RECURSIVE LexFrom(_, _)
LexFrom(s, t) == IF t.ret = "" THEN <<>> ELSE <<t>> \o LexFrom(s, TokenAt(s, t.next))
Lex(s) == LexFrom(s, gettoken(s, 1))

IsOp(t) == t.ret \in {"<", ">", "+"}
Words(ts) == {k \in 1..Len(ts) : ts[k].ret = "a" /\ (k = 1 \/ ~IsOp(ts[k - 1]))}
Ops(ts) == {k \in 1..Len(ts) : IsOp(ts[k])}

\* Words and redirections, each followed by its file.
Simple(ts) ==
  /\ \A k \in 1..Len(ts) : ts[k].ret = "a" \/ IsOp(ts[k])
  /\ \A k \in Ops(ts) : k < Len(ts) /\ ts[k + 1].ret = "a"
RedirsOf(ts) ==
  LET ks == SetToSortSeq(Ops(ts), <)
  IN [n \in 1..Len(ks) |-> [mode |-> ts[ks[n]].ret, file |-> ts[ks[n] + 1].word]]
ArgsOf(ts) ==
  LET ks == SetToSortSeq(Words(ts), <) IN [n \in 1..Len(ks) |-> ts[ks[n]].word]

\* All trees of a line, of a pipeline with its &s, of a pipeline, of a command:
\*   line ::= back | back ; line      back ::= pipe | back &
\*   pipe ::= exec | exec "|" pipe    exec ::= simple | ( line ) redirs
RECURSIVE LineTrees(_), BackTrees(_), PipeTrees(_), ExecTrees(_)
Splits(ts, tok) == {k \in 1..Len(ts) : ts[k].ret = tok}
Before(ts, k) == SubSeq(ts, 1, k - 1)
After(ts, k) == SubSeq(ts, k + 1, Len(ts))
LineTrees(ts) ==
  BackTrees(ts) \union
  UNION {{listcmd(x, y) : x \in BackTrees(Before(ts, k)), y \in LineTrees(After(ts, k))} : k \in Splits(ts, ";")}
BackTrees(ts) ==
  IF ts # <<>> /\ Last(ts).ret = "&" THEN {backcmd(x) : x \in BackTrees(Front(ts))} ELSE PipeTrees(ts)
PipeTrees(ts) ==
  ExecTrees(ts) \union
  UNION {{pipecmd(x, y) : x \in ExecTrees(Before(ts, k)), y \in PipeTrees(After(ts, k))} : k \in Splits(ts, "|")}
ExecTrees(ts) ==
  IF ts # <<>> /\ ts[1].ret = "("
  THEN UNION {{Around(x, RedirsOf(After(ts, k))) : x \in LineTrees(SubSeq(ts, 2, k - 1))} :
              k \in {j \in Splits(ts, ")") : Simple(After(ts, j)) /\ Words(After(ts, j)) = {}}}
  ELSE IF Simple(ts) /\ Cardinality(Words(ts)) < MAXARGS
       THEN {Around(execcmd(ArgsOf(ts)), RedirsOf(ts))} ELSE {}

-----------------------------------------------------------------------------
(* Properties *)

\* The recursive descent of parsecmd accepts exactly the lines of the grammar,
\* with white space anywhere, and builds the one tree they have; a redirection
\* belongs to the command it is written in, wherever it stands among its words;
\* and nulterminate ends every word of the line and touches no other character
\* of one.
ParsesGrammar ==
  LET r == parsecmd(shline)
      ts == Lex(shline)
  IN /\ LineTrees(ts) = IF r.ok THEN {r.cmd} ELSE {}
     /\ r.ok => nulterminate(r.cmd) = {ts[k].word[2] : k \in Splits(ts, "a")}

=============================================================================
