SPECIFICATION Spec
CONSTANTS
  Carts = {c1, c2}
  Backups = {b1}
  Clicks = {r1}
  Attempts = 2
  MaxFaults = 0
  Null = Null
INVARIANTS
  NumbersNeverCollide
CHECK_DEADLOCK FALSE
