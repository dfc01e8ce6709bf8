SPECIFICATION Spec
CONSTANTS
  Orders = {o1}
  Requests = {r1, r2, r3, r4}
  Pricings = {slot, addon}
  Addons = {addon}
  Prices = {1, 2}
  EditDuplicates = FALSE
  NoOrder = NoOrder
  NoItem = NoItem
SYMMETRY Symmetry
PROPERTIES OnlyPendingRejected
CHECK_DEADLOCK FALSE
