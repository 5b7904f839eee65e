\* The builder is a batch tool: after its last permitted run it stops.
CONSTANTS
  root = root
  A = A
  B = B
  A1 = A1
  A2 = A2
  k1 = k1
  k2 = k2
  k3 = k3
  k4 = k4
  Taxa = {root, A, B, A1, A2}
  Root = root
  Keys = {k1, k2, k3, k4}
  Empty = Empty
  ShardCap = 3
  ProbeBound = 3
  ChunkIds = {1, 2}
  MaxRuns = 3
  Parent <- MCParent
  Home <- MCHome
  ChunkRecs <- MCChunkRecs
SPECIFICATION Spec
INVARIANTS TypeOK RemovedChunksAreFolded BuiltIndexExact
PROPERTIES IndexRefinement BuildEnds
CHECK_DEADLOCK FALSE
