SPECIFICATION Spec
CONSTANTS
  Requests = {r1, r2, r3}
  Capacity = 1
  LastDay = 2
  MaxItems = 2
  Calls = {"approve", "update", "manual"}
SYMMETRY Symmetry
INVARIANTS CapacityKept BookingAgrees
PROPERTIES NoLostUpdate
CHECK_DEADLOCK FALSE
