\* Owned locals and defers in blocks, loops and branches, each way out leaving
\* one scope.
CONSTANTS
  Labels = {}
  NoLabel = "none"
  Features = {"defer", "own", "block", "loop", "branch", "guard", "ret", "jump", "exprBody"}
  MaxStmts = 3
  MaxArms = 2
  MaxParams = 1
  MaxFuncs = 1
SPECIFICATION Spec
INVARIANTS
  NoDanglingTarget
  NoDeadEnd
PROPERTIES
  CleanupAsPromised
\* The lowering stops: after MaxFuncs functions, or when the compiler panics.
CHECK_DEADLOCK FALSE
