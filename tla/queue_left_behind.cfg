SPECIFICATION Spec
CONSTANTS
  o1 = o1
  o2 = o2
  u1 = u1
  u2 = u2
  u3 = u3
  u4 = u4
  Offices = {o1, o2}
  Users = {u1, u2, u3, u4}
  ShutdownUsers = {u1}
  MAX_SAVED_REQUESTS = 2
  NoRequest = NoRequest
SYMMETRY Symmetry
INVARIANTS
  NothingLeftBehind
CHECK_DEADLOCK FALSE
