\* Every function of one parameter from a grammar of bodies.
CONSTANTS
  Trusted = {}
SPECIFICATION Spec
INVARIANTS
  AcceptedNeverGoesWrong
  RejectedForAReason
\* The checker stops when the module is checked.
CHECK_DEADLOCK FALSE
