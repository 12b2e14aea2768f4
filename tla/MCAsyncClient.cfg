SPECIFICATION Spec
CONSTANTS
  MaxBlockSize = 3
  Threads = {t1, t2}
  Shapes <- MCShapes
  CacheSize = 2
  FlushThreshold = 1
  MaxWrites = 3
  MaxFlushes = 2
  MaxBreaks = 0
  MaxErrors = 0
INVARIANTS IndInv InOrder FlushCovers OneCallAtATime NoLostWakeup Accounting CacheBound CleanTermination
PROPERTY ImplementsWriteBehind
