SPECIFICATION Spec
CONSTANTS
  Orders = {o1}
  Requests = {r1, r2, r3, r4}
  Pricings = {slot, addon}
  Addons = {addon}
  Prices = {1, 2}
  EditDuplicates = FALSE
  NoOrder = NoOrder
  NoItem = NoItem
SYMMETRY Symmetry
INVARIANTS NeverEmptied SubtotalIsSum AdsMatchOrder PaidOnce
PROPERTIES SettledIsFinal ImplementsOrderBook
CHECK_DEADLOCK FALSE
