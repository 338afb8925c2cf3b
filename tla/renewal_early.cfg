SPECIFICATION MCSpec
CONSTANTS
  o1 = o1
  o2 = o2
  j1 = j1
  j2 = j2
  Operators = {o1, o2}
  Slots = {j1, j2}
  Period = 2
  Retention = 3
  Extensions = {1, 2}
  Late = 2
  Week = 2
  Three = 1
  Attempts = 2
  MaxRequests = 2
  MaxFaults = 1
PROPERTIES
  DatesDecide
CHECK_DEADLOCK FALSE
