SPECIFICATION FairSpec
CONSTANTS
  IDLE = 14 PING = 3 LAG = 2 SOCK = 2 PASS = 1 INBOX = 2 OUT_CAP = 1
INVARIANTS
  LifeInv
PROPERTIES
  SilentPeerIsDropped
CHECK_DEADLOCK FALSE
