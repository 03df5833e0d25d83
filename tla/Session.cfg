SPECIFICATION Spec
CONSTANTS
  Attach = {a1, a2}
  NoSub = NoSub
  RING_CAP = 2
  FEED_CAP = 1
  SUB_CAP = 1
  READ_MAX = 2
  MaxBytes = 3
  MaxCtrl = 2
  Asked <- AskedSmall
SYMMETRY Perms
INVARIANTS
  SessionInv Gapless AttachedIsNotReaped
PROPERTIES
  KeepsPromise KeepsContract
CHECK_DEADLOCK FALSE
