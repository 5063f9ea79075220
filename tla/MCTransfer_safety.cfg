CONSTANTS
  ChunkSize = 2
  HeaderSize = 1
  HighWater = 3
  LowWater = 1
  Window = 5
  AckInterval = 3
  MaxFileSize = 7
  Sizes = {0, 3, 4, 7, 8}
  HashModes = {TRUE, FALSE}
  CorruptModes = {TRUE, FALSE}
  FaultSets = {{"close", "cancel", "read", "hash", "sink", "timeout"}}
SPECIFICATION Spec
CHECK_DEADLOCK FALSE
INVARIANT TypeOK
INVARIANT BacklogBounded
INVARIANT NoLostWakeup
INVARIANT AcksAreHonest
INVARIANT FramingAgrees
INVARIANT ContentIsExact
PROPERTY ImplementsDelivery
