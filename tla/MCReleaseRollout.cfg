CONSTANTS
  Ticks = {t1, t2}
  t1 = t1
  t2 = t2
  Ambient = FALSE
  Stages = 2
  Faults = {"stop", "timeout", "drift", "provider", "expiry"}
  MaxFaults = 1
  None = None
SYMMETRY TickSymmetry
SPECIFICATION Spec
INVARIANTS
  TypeOK
  OneMutation
  RecordsAgree
  TargetIsQuiet
PROPERTIES
  TerminalIsFinal
  ImplementsExposure
