SPECIFICATION Spec
CONSTANTS
  Requests = {r1, r2}
  Kinds = {"award", "deduct", "approve", "recalculate", "register", "profile"}
  Amounts = {1, 2}
  Gates <- NearGates
  MaxInt = 3
SYMMETRY Symmetry
INVARIANTS PointsAddUp SpendingAddsUp TierFits
CHECK_DEADLOCK FALSE
