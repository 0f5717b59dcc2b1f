\* Loops whose condition begins with a name, as in docs/spec/02-syntax.md.
CONSTANTS
  Forms = {"name in front of a loop"}
  Damage = FALSE
SPECIFICATION Spec
INVARIANTS
  WellFormedParses
\* The parser stops at the end of the file.
CHECK_DEADLOCK FALSE
