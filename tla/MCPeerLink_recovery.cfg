CONSTANTS
  MaxAttempts = 3
  MaxFaults = 1
SPECIFICATION FairSpec
INVARIANT TypeOK
INVARIANT AnswersMatch
INVARIANT DirectCandidatesMatch
INVARIANT AttemptsBounded
CHECK_DEADLOCK FALSE
PROPERTY WaitsEnd
PROPERTY Recovers
