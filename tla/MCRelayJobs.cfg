SPECIFICATION FairSpec
CONSTANTS
  c1 = c1
  c2 = c2
  c3 = c3
  None = None
  Jobs = {1, 2}
  Cycles = {c1, c2, c3}
  Boot <- MCBoot
  Host <- MCHost
  MaxAttempts = 2
  LedgerCapacity = 1
  MaxEpoch = 2
INVARIANTS TypeOK ReadsAreClaimed OutcomesAgree EvidenceIsRetained
PROPERTIES ResultIsBoundOnce ImplementsPromise EveryJobIsSettledOrFenced
CHECK_DEADLOCK FALSE
