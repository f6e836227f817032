SPECIFICATION FairSystemSpec
CONSTANTS
  o1 = o1
  o2 = o2
  u1 = u1
  u2 = u2
  Offices = {o1, o2}
  Users = {u1, u2}
  ShutdownUsers = {u1}
  MAX_SAVED_REQUESTS = 1
  NoRequest = NoRequest
INVARIANTS
  SystemTypeOK
  SidesAgree
  OwnFIFORemoved
  SlotsAccounted
PROPERTIES
  SessionEnds
CHECK_DEADLOCK FALSE
