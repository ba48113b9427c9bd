SPECIFICATION Spec
CONSTANTS
  c1 = c1
  c2 = c2
  c3 = c3
  None = None
  Jobs = {1}
  Cycles = {c1, c2}
  Boot <- MCBoot
  Host <- MCHost
  MaxAttempts = 2
  LedgerCapacity = 1
  MaxEpoch = 1
INVARIANT RetryableOutcomeIsRecorded
CHECK_DEADLOCK FALSE
