CONSTANTS
  Ticks = {t1}
  t1 = t1
  t2 = t2
  Ambient = TRUE
  Stages = 2
  Faults = {}
  MaxFaults = 0
  None = None
SPECIFICATION FairSpec
PROPERTY DispatchedIsCompleted
