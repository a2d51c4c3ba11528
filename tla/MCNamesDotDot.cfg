CONSTANTS
  Parts = {"names"}
  MAXARGS = 3
  MaxLine = 0
  RunLines <- MCLines
  NFd = 6
  MayFail = TRUE
  Proc = {p1, p2}
  ninodes = 3
  Name = {"a", "b"}
  Calls <- DotDotCalls
  MaxLinks = 3
  NONE = NONE
SPECIFICATION Spec
SYMMETRY Alike
INVARIANT NoInodePanic
