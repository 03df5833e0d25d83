SPECIFICATION FairSpec
CONSTANTS
  Attach = {a1, a2}
  NoSub = NoSub
  RING_CAP = 1
  FEED_CAP = 1
  SUB_CAP = 1
  READ_MAX = 1
  MaxBytes = 2
  MaxCtrl = 1
  Asked <- AskedAll
PROPERTIES
  AttachIsServed StreamsEnd
CHECK_DEADLOCK FALSE
