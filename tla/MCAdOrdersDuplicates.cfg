SPECIFICATION Spec
CONSTANTS
  Orders = {o1}
  Requests = {r1, r2, r3, r4}
  Pricings = {slot, addon}
  Addons = {addon}
  Prices = {1, 2}
  EditDuplicates = TRUE
  NoOrder = NoOrder
  NoItem = NoItem
SYMMETRY Symmetry
INVARIANTS SubtotalIsSum
CHECK_DEADLOCK FALSE
