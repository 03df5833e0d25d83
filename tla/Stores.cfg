SPECIFICATION SpecMC
CONSTANTS
  Proc = {p1, p2}
  a = a
  b = b
  x = x
  Name = {a, b}
  Item = {x}
  None = None
  MAX_FOLDERS = 2
  MAX_REQUESTS = 2
  MAX_SHARED = 1
  Doc <- Docs
  Schema = {s1, s2, s3}
  Root = s1
  DEPTH = 4
  Call = {c1, c2, c3}
  c1 = c1
  c2 = c2
  c3 = c3
  Old = {o1, o2}
  o1 = o1
  o2 = o2
  Dir = Dir
  Void = Void
  Path <- Paths
  Tree0 <- Trees
  PATH_MAX = 3
  FIELDS = 2
  IMPORT = 2
  IDS = 3
  Given = Given
  PARTS = 2
  STARTS = 4
  Canvas = {short, long}
  Size <- Sizes
  short = short
  long = long
  Put = {u1, u2, u3}
  Blank = Blank
INVARIANTS
  SavedInv SamplesInv FilesInv CanvasInv VaultInv TunnelInv
PROPERTIES
  SampleEnds CopyIsWhole
CHECK_DEADLOCK FALSE
