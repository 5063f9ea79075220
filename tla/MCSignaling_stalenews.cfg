CONSTANTS
  Sessions = {s1, s2, s3}
  Creators = {s1}
  Joiners = {s2, s3}
  Reattachers = {s2, s3}
  Code = c1
  WaitTTL = 0
  SilenceTimeout = 0
  ReattachGrace = 0
  NoRoom = NoRoom
  NoSlot = NoSlot
  BusCap = 9
  OutCap = 2
  EventSets = {{"failure"}}
  Watched = {"room_created", "joined", "reattached", "partner"}
SPECIFICATION Spec
CHECK_DEADLOCK FALSE
SYMMETRY LaterSymmetry
INVARIANT ReturnIsSeen
