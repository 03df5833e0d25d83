SPECIFICATION SpecMC
CONSTANTS
  c1 = c1
  Conn = {c1, c2}
  r1 = r1
  r2 = r2
  r3 = r3
  Request = {r1, r2, r3}
  SESSIONS = 2
  NoRequest = NoRequest
INVARIANTS
  ConnectionsInv CloseSparesOthers
PROPERTIES
  KeepsContract AbandonedIsReaped
CHECK_DEADLOCK FALSE
