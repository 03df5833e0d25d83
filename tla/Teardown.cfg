SPECIFICATION SpecMC
CONSTANTS
  Forward = {f1, f2}
  Plain = f2
  Shell = {s1, s2}
  Chat = {r1}
  Conn = {c1, c2}
  Request = {q1}
  CHAN = 1
  LINES = 2
INVARIANTS
  ForwardsInv ShutdownInv
PROPERTIES ForwardsEnd CtrlCIsServed UiEnds
CHECK_DEADLOCK FALSE
