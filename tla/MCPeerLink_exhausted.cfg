CONSTANTS
  MaxAttempts = 3
  MaxFaults = 1
SPECIFICATION FairSpec
INVARIANT FailsOnlyWhenExhausted
CHECK_DEADLOCK FALSE
