SPECIFICATION MCSpec
CONSTANTS
  c1 = c1
  c2 = c2
  b1 = b1
  b2 = b2
  r1 = r1
  r2 = r2
  Carts = {c1, c2}
  Backups = {b1, b2}
  Clicks = {r1, r2}
  Attempts = 2
  MaxFaults = 1
  Null = Null
INVARIANTS
  Inductive
  OrdersWhole
  ArchivesOwned
  ReadyIsStored
PROPERTIES
  PutBack
  BackupsSettle
CHECK_DEADLOCK FALSE
