CONSTANTS
  Objects = {a, b, c}
  MaxItems = 2
  MaxHeld = 2
  MaxLeaked = 1
  First = 1
  Reach = 1
SPECIFICATION Spec
INVARIANTS CountsExact ShutdownClean ListsAcyclic
CHECK_DEADLOCK FALSE
SYMMETRY Symmetry
