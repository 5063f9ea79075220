CONSTANTS
  ChunkSize = 2
  HeaderSize = 1
  HighWater = 3
  LowWater = 1
  Window = 4
  AckInterval = 3
  MaxFileSize = 7
  Sizes = {0, 5}
  HashModes = {TRUE}
  CorruptModes = {TRUE, FALSE}
  FaultSets = {{}, {"close", "cancel", "read", "hash", "sink", "timeout"}}
SPECIFICATION FairSpec
CHECK_DEADLOCK FALSE
PROPERTY SenderEnds
PROPERTY OpenReceiverEnds
PROPERTY AcceptedIsDelivered
PROPERTY CorruptionIsReported
