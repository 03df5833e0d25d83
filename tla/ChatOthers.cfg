SPECIFICATION SpecMC
CONSTANTS
  r1 = r1
  r2 = r2
  id1 = id1
  id2 = id2
  Run = {r1, r2}
  Rid = {id1, id2}
  Cancel = {k1}
  Conn = {c1, c2}
  RidOf <- OwnIds
  NoRun = NoRun
  e1 = e1
  e2 = e2
  e3 = e3
  Call = {e1, e2, e3}
  None = None
  BANNER = 2
  OVERLAP = 2
  name = name
  Name = {name}
  Lists <- TheLists
  Nonce = {1, 2}
  NIO_FILES = 2
PROPERTIES
  OnlyOwnRunsAreStopped
CHECK_DEADLOCK FALSE
