SPECIFICATION FairSpec
CONSTANTS
  o1 = o1
  o2 = o2
  u1 = u1
  u2 = u2
  u3 = u3
  Offices = {o1, o2}
  Users = {u1, u2, u3}
  ShutdownUsers = {u1, u2}
  MAX_SAVED_REQUESTS = 2
  NoRequest = NoRequest
PROPERTIES
  ChannelSpec
  ShutdownStopsOffices
  QueuedIsTaken
CHECK_DEADLOCK FALSE
