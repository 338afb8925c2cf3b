SPECIFICATION MCSpec
CONSTANTS
  shirt = shirt
  mug = mug
  card = card
  c1 = c1
  c2 = c2
  e1 = e1
  e2 = e2
  Customers = {c1, c2}
  Editors = {e1, e2}
  Products <- MCProducts
  Policy <- MCPolicy
  Stock0 <- MCStock
  Carts <- MCCarts
  MaxUses = 1
  Deletable = TRUE
INVARIANTS
  RefusedLeavesNothing
CHECK_DEADLOCK FALSE
