\* Files of one or two items from the grammar, and short ones with a token
\* removed, inserted or replaced.
CONSTANTS
  Forms = {}
  Damage = TRUE
SPECIFICATION Spec
INVARIANTS
  WellFormedParses
  EveryNameKept
  NothingLoops
\* The parser stops at the end of the file.
CHECK_DEADLOCK FALSE
