SPECIFICATION Spec
CONSTANTS
  Threads = {t1, t2}
  Paths <- MCPaths
  Files <- MCFiles
  Parent <- MCParent
  Below <- MCBelow
  Requests <- MCRequests
  EvictionPolicy = "lru"
  Size = 2
  TimeOut = 1
  MaxTime = 1
  MaxOps = 6
SYMMETRY Symmetry
INVARIANTS Coherent KeysMatch 
CHECK_DEADLOCK FALSE
