\* The resolver is a batch tool: it stops when done or on a panic.
CONSTANTS
  root = root
  A = A
  B = B
  A1 = A1
  A2 = A2
  s1 = s1
  s2 = s2
  s3 = s3
  s4 = s4
  f11 = f11
  f12 = f12
  f21 = f21
  f22 = f22
  Taxa = {root, A, B, A1, A2}
  Root = root
  Seqs = {s1, s2, s3, s4}
  Samples = {1, 2}
  Workers = {w1, w2}
  MinHitGroups = 1
  Unclassified = Unclassified
  NoMap = NoMap
  BadId = BadId
  BadLine = BadLine
  NoWorker = NoWorker
  UsizeMod = 65536
  ReadErrors = TRUE
  Parent <- MCParent
  BinFiles <- MCBinFiles
  Rows <- MCRows
  IdFiles <- MCIdFiles
SPECIFICATION Spec
INVARIANTS TypeOK CountsMatchOutput
PROPERTIES Terminates
CHECK_DEADLOCK FALSE
