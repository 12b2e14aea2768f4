SPECIFICATION Spec
CONSTANTS
  Threads = {t1, t2}
  Handles = {h1, h2}
  Paths = {"f"}
  PathOf <- MCPathOf
  Reads <- MCReads
  FirstLen = 3
  Lens = {0, 3}
  Ahead = 1
  BlockSize = 2
  Size = 0
  TimeOut = 1
  SizeMod = 8
  EvictionPolicy = "lru"
  MaxTime = 1
  MaxOps = 4
  MaxChanges = 1
  MaxErrors = 1
SYMMETRY Symmetry
INVARIANTS Accounting Evictable CloseToOpen 
CHECK_DEADLOCK FALSE
