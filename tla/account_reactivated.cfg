SPECIFICATION Spec
CONSTANTS
  r1 = r1
  w1 = w1
  w2 = w2
  Requests = {r1}
  Workers = {w1}
  Ops = {"suspend", "reactivate", "purge"}
  Period = 1
  Retention = 1
  MaxDay = 2
  MaxGen = 1
  MaxCrashes = 0
  Undelivered = {}
PROPERTIES
  ReactivationWins
CHECK_DEADLOCK FALSE
