\* Every construct; the properties are asked of functions without the gaps that
\* they name.
CONSTANTS
  Names = {"x", "y"}
  Features = {"params", "let", "move", "call", "borrow", "assign", "store", "ret", "value",
              "block", "branch", "bind", "loop", "shadow", "infer", "lend", "unwalked"}
  Trusted = {}
  MaxStmts = 4
  MaxGaps = 1
  MaxArms = 2
SPECIFICATION Spec
INVARIANTS
  MovesRemembered
  
  MovesNotInvented
  
