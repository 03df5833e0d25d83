SPECIFICATION FairSpec
CONSTANTS
  Session = {s1}
  Call = {c1, c2, c3}
  NoCall = NoCall
  WORKERS = 4
  TTY_IN = 1
  PIPE_OUT = 1
  MIN_PAYLOAD = 2
  MaxInput = 2
PROPERTY CallsReturn
CHECK_DEADLOCK FALSE
