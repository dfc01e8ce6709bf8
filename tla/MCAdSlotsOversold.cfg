SPECIFICATION Spec
CONSTANTS
  Requests = {r1, r2}
  Capacity = 1
  LastDay = 2
  MaxItems = 2
  Calls = {"approve"}
SYMMETRY Symmetry
INVARIANTS MaxOccupants
CHECK_DEADLOCK FALSE
