SPECIFICATION Spec
CONSTANTS
  Requests = {r1, r2}
  Kinds = {"award"}
  Amounts = {1}
  Gates <- NearGates
  MaxInt = 3
SYMMETRY Symmetry
INVARIANT RunningBalance
CHECK_DEADLOCK FALSE
