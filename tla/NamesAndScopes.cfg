\* Two modules and one function: blocks, arms, shadowing, imports.
CONSTANTS
  Idents = {"x", "y"}
  MaxItems = 2
  MaxStmts = 3
SPECIFICATION Spec
INVARIANTS
  
  MeansWhatIsDeclared
  LoweringMeansTheSame
  
\* The resolver stops when the second module is done.
CHECK_DEADLOCK FALSE
