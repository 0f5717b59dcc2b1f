\* Every construct of the lowering in one function, nested at will.
CONSTANTS
  Labels = {"a"}
  NoLabel = "none"
  Features = {"block", "loop", "branch", "guard", "match", "armFlow", "ret", "deepRet", "jump", "deepJump",
              "bareTail", "exprBody", "propagate", "own", "defer", "lateDefer", "move", "pass"}
  MaxStmts = 2
  MaxArms = 2
  MaxParams = 1
  MaxFuncs = 1
SPECIFICATION Spec
INVARIANTS
  CurrentBlockOpen
  UnwindsWithinStack
  LabelsNameOpenLoops
  StackShape
  NothingLeaks
PROPERTIES
  DecidedBlocksAreFinal
\* The lowering stops: after MaxFuncs functions, or when the compiler panics.
CHECK_DEADLOCK FALSE
