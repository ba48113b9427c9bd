SPECIFICATION Spec
CONSTANTS
  d1 = d1
  f1 = f1
  t1 = t1
  t2 = t2
  Detections = {d1}
  Firings = {f1}
  Ticks = {t1, t2}
  Budget = 2
  Nobody = Nobody
  Gone = Gone
  Poller = Poller
INVARIANT
  CommandsAdvance
CHECK_DEADLOCK FALSE
