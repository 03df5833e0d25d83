SPECIFICATION SpecMC
CONSTANTS
  Starts = {s1, s2, s3}
  Stops = {k1, k2}
  None = None
  PROBES = 1
INVARIANTS
  AppsInv AgreeInTurn
PROPERTY CallsReturn
CHECK_DEADLOCK FALSE
