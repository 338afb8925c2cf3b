SPECIFICATION FairSpec
CONSTANTS
  r1 = r1
  w1 = w1
  w2 = w2
  Requests = {r1}
  Workers = {w1}
  Ops = {"suspend", "extendRetention", "reissue", "purge"}
  Period = 2
  Retention = 1
  MaxDay = 2
  MaxGen = 1
  MaxCrashes = 1
  Undelivered = {}
PROPERTIES
  DuePurgeHappens
  NeverSilent
CHECK_DEADLOCK FALSE
