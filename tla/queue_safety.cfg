SPECIFICATION Spec
CONSTANTS
  o1 = o1
  o2 = o2
  o3 = o3
  u1 = u1
  u2 = u2
  u3 = u3
  u4 = u4
  Offices = {o1, o2, o3}
  Users = {u1, u2, u3, u4}
  ShutdownUsers = {u1, u2}
  MAX_SAVED_REQUESTS = 2
  NoRequest = NoRequest
SYMMETRY Symmetry
INVARIANTS
  TypeOK
  BufferSafe
  NoLostWakeup
  ActiveThreadsExact
CHECK_DEADLOCK FALSE
