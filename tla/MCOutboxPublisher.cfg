SPECIFICATION Spec
CONSTANTS
  t1 = t1
  t2 = t2
  Events = {1, 2, 3}
  Ticks = {t1, t2}
  Budget = 2
  BatchSize = 2
  Unpublishable = {1}
  Nobody = Nobody
  Gone = Gone
INVARIANTS
  TypeOK
  PublishedWasSent
  SendsArePaid
PROPERTIES
  SettledIsFinal
  EventsSettle
CHECK_DEADLOCK FALSE
