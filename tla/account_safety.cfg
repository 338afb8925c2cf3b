SPECIFICATION Spec
CONSTANTS
  r1 = r1
  w1 = w1
  w2 = w2
  Requests = {r1}
  Workers = {w1, w2}
  Ops = {"suspend", "reactivate", "extend", "purge", "rebuild"}
  Period = 1
  Retention = 1
  MaxDay = 2
  MaxGen = 2
  MaxCrashes = 0
  Undelivered = {"verify", "recheck", "retry"}
SYMMETRY Symmetry
INVARIANTS
  Inductive
  ArchiveOnlyWhileSuspended
  StampedIsStored
  PurgedLeavesNothing
PROPERTIES
  PromiseKept
CHECK_DEADLOCK FALSE
