CONSTANTS
  Codes = {c1}
  Peers = {p1, p2, p3}
  WaitTTL = 2
  SilenceTimeout = 1
  ReattachGrace = 1
  MaxGen = 2
  NoRoom = NoRoom
  NoSlot = NoSlot
  c1 = c1
  p1 = p1
  p2 = p2
  p3 = p3
SPECIFICATION FairSpec
INVARIANT TypeOK
INVARIANT SlotsConsistent
PROPERTY ImplementsPairing
PROPERTY AttachmentsAreFinal
PROPERTY AwayPeersAreDropped
PROPERTY UnpairedRoomsEnd
PROPERTY PairingSurvivesGrace
