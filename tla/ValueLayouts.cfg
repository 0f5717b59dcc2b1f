\* Composite types of composite types: built, copied, borrowed, taken apart.
CONSTANTS
  Widths = {8}
  MaxLen = 2
SPECIFICATION Spec
INVARIANTS
  MemoryHoldsValues
  InsideTheSlots
