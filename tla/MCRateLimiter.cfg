CONSTANTS
  Keys = {k1, k2}
  Limit = 2
  Window = 3
SPECIFICATION Spec
INVARIANT WindowHolds
INVARIANT RefusalsAreEarned
