\* One module: functions and structs that use one another and the builtins.
CONSTANTS
  Names = {"main", "f", "g"}
  MaxModules = 1
  MaxItems = 2
  MaxUses = 2
SPECIFICATION Spec
INVARIANTS
  UsesReachTheirItem
  EveryFunctionIsDefined
\* The compiler stops.
CHECK_DEADLOCK FALSE
