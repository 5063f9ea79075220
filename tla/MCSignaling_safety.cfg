CONSTANTS
  Sessions = {s1, s2}
  Creators = {s1, s2}
  Joiners = {s1, s2}
  Reattachers = {s1, s2}
  Code = c1
  WaitTTL = 0
  SilenceTimeout = 0
  ReattachGrace = 0
  NoRoom = NoRoom
  NoSlot = NoSlot
  BusCap = 1
  OutCap = 2
  EventSets = {{"ping", "failure", "time"}, {"relay", "failure", "time"}, {"sync", "failure", "time"}, {"bad", "failure", "time"}}
  Watched = {"room_created", "joined", "reattached", "relay", "room_closed", "partner"}
SPECIFICATION Spec
SYMMETRY SessionSymmetry
INVARIANT TypeOK
INVARIANT RoomClosedIsTold
INVARIANT RepliesFirst
PROPERTY ExpiryClosesOnlyWaiting
