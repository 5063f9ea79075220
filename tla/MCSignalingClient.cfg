CONSTANTS
  MaxSockets = 4
  MaxFaults = 4
SPECIFICATION FairSpec
INVARIANT TypeOK
INVARIANT OneSocket
INVARIANT NeverSilent
INVARIANT StopsForCause
INVARIANT StaysStopped
PROPERTY ComesToRest
CHECK_DEADLOCK FALSE
