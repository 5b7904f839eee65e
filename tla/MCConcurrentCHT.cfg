\* Inserts stop when every thread is done or has hit the fatal error.
CONSTANTS
  root = root
  A = A
  B = B
  A1 = A1
  A2 = A2
  k1 = k1
  k2 = k2
  k3 = k3
  th1 = th1
  th2 = th2
  th3 = th3
  th4 = th4
  Taxa = {root, A, B, A1, A2}
  Root = root
  Keys = {k1, k2, k3}
  Threads = {th1, th2, th3, th4}
  Empty = Empty
  ShardCap = 3
  ProbeBound = 3
  Parent <- MCParent
  Home <- MCHome
  Job <- MCJob
SPECIFICATION Spec
INVARIANTS TypeOK InsertsStored FatalOnlyWhenFull
PROPERTIES InsertsTerminate
CHECK_DEADLOCK FALSE
