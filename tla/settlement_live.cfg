SPECIFICATION MCFairSpec
CONSTANTS
  o1 = o1
  o2 = o2
  c1 = c1
  r1 = r1
  r2 = r2
  p1 = p1
  p2 = p2
  Orders = {o1}
  Online = {o1}
  Others = {}
  Requests = {r1, r2}
  Passes = {p1, p2}
  Subscribed = {"order.paid"}
  Limit = 1
  MaxAttempts = 2
  MaxDeaths = 1
  MaxFailures = 1
PROPERTIES
  PaymentArrives
  DeliveriesEnd
CHECK_DEADLOCK FALSE
