\* Ints of three bits; six control-flow graphs with up to three statements in all.
CONSTANTS
  IntMax = 3
  MaxLocals = 2
  Graphs <- SmallGraphs
  Statements <- SmallStatements
  Operations <- AllOperations
  MaxStmts = 3
  Starts = {0, 1}
  Fuel = 5
SPECIFICATION Spec
INVARIANTS
  SameBehaviour
  UselessStoresGo
  ValidStaysValid
\* The pipeline stops when it is done.
CHECK_DEADLOCK FALSE
