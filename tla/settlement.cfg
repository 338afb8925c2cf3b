SPECIFICATION MCSpec
CONSTANTS
  o1 = o1
  o2 = o2
  c1 = c1
  r1 = r1
  r2 = r2
  p1 = p1
  p2 = p2
  Orders = {o1, o2}
  Online = {o1}
  Others = {c1}
  Requests = {r1, r2}
  Passes = {p1, p2}
  Subscribed = {"order.paid"}
  Limit = 1
  MaxAttempts = 2
  MaxDeaths = 1
  MaxFailures = 1
SYMMETRY Symmetry
INVARIANTS
  Inductive
  PaidOnce
  PaymentsAnnounced
  AckedIsAccounted
  IndexExact
  EndedRightly
PROPERTIES
  LedgerKept
CHECK_DEADLOCK FALSE
