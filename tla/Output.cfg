SPECIFICATION FairSpec
CONSTANTS
  Stream = {s1, s2}
  None = None
  SUB_CAP = 1
  OUT_CAP = 2
  FRAME_MAX = 3
  GZIP_MIN = 2
  READ_MAX = 2
  MaxBytes = 4
  Magic = {}
INVARIANTS
  FramesInv
PROPERTIES
  KeepsPromise OutputArrives
CHECK_DEADLOCK FALSE
