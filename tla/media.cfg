SPECIFICATION MCSpec
CONSTANTS
  cat = cat
  dog = dog
  w1 = w1
  w2 = w2
  Photos = {cat, dog}
  Workers = {w1, w2}
  Size <- MCSize
  Stored <- MCStored
  Bad = {dog}
  Limit = 4
  Attempts = 2
  MaxFaults = 2
INVARIANTS
  Inductive
  QuotaExact
  QuotaHeld
  ReadyIsStored
  AcceptedKept
PROPERTIES
  ShownStays
  TilesSettle
  OrphansSwept
CHECK_DEADLOCK FALSE
