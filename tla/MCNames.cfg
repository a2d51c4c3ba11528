CONSTANTS
  Parts = {"names", "parse", "run"}
  MAXARGS = 3
  MaxLine = 5
  RunLines <- MCLines
  NFd = 6
  MayFail = TRUE
  Proc = {p1, p2}
  ninodes = 3
  Name = {"a", "b"}
  Calls <- MCCalls
  MaxLinks = 3
  NONE = NONE
SPECIFICATION Spec
SYMMETRY Alike
INVARIANTS
  InodeRefsExact
  NoInodePanic
  LinksMatch
  ParsesGrammar
  LinesEnd
