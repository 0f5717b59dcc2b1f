\* Files that are missing or do not parse, several inputs, repeated imports.
CONSTANTS
  Files = {"a", "b", "c"}
  Contents = {"good", "bad", "missing"}
  MaxImports = 2
  MaxInputs = 2
  SameStem = FALSE
SPECIFICATION Spec
INVARIANTS
  LoadsWhatIsImported
  CyclesAreRejected
  ImportsComeFirst
PROPERTIES
  Decides
\* The compiler stops when the modules are sorted or rejected.
CHECK_DEADLOCK FALSE
