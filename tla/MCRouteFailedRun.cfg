SPECIFICATION Spec
CONSTANTS
  r1 = r1
  r2 = r2
  p1 = p1
  p2 = p2
  c1 = c1
  c2 = c2
  Requests = {r1, r2}
  Ticks = {p1, p2}
  Calls = {c1, c2}
  Nobody = Nobody
INVARIANT
  FailedRunHasNoReceipt
CHECK_DEADLOCK FALSE
