CONSTANTS
  ChunkSize = 2
  HeaderSize = 1
  HighWater = 3
  LowWater = 1
  Window = 4
  AckInterval = 3
  MaxFileSize = 7
  Sizes = {3}
  HashModes = {TRUE}
  CorruptModes = {FALSE}
  FaultSets = {{"close"}}
SPECIFICATION FairSpec
CHECK_DEADLOCK FALSE
PROPERTY ReceiverEnds
