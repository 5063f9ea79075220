CONSTANTS
  Sessions = {s1, s2, s3}
  Creators = {s1}
  Joiners = {s3}
  Reattachers = {s2}
  Code = c1
  WaitTTL = 0
  SilenceTimeout = 0
  ReattachGrace = 0
  NoRoom = NoRoom
  NoSlot = NoSlot
  BusCap = 1
  OutCap = 1
  EventSets = {{"ping", "bad", "failure", "time"}, {"ping"}}
  Watched = {"room_created"}
SPECIFICATION LiveSpec
CHECK_DEADLOCK FALSE
PROPERTY StaleSessionsEnd
