SPECIFICATION FairSpec
CONSTANTS
  MaxBlockSize = 2
  Threads = {t1, t2}
  Shapes <- MCOneShape
  CacheSize = 1
  FlushThreshold = 0
  MaxWrites = 3
  MaxFlushes = 1
  MaxBreaks = 1
  MaxErrors = 0
PROPERTIES CallsReturn WritesReachServer DestructorReturns
