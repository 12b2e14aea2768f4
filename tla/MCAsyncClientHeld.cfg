SPECIFICATION Spec
CONSTANTS
  MaxBlockSize = 3
  Threads = {t1, t2}
  Shapes <- MCShapes
  CacheSize = 2
  FlushThreshold = 1
  MaxWrites = 3
  MaxFlushes = 1
  MaxBreaks = 0
  MaxErrors = 0
INVARIANT HeldWithinCacheSize
