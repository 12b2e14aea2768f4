SPECIFICATION Spec
CONSTANTS
  MaxBlockSize = 3
  Threads = {t1, t2}
  Shapes <- MCShapes
  CacheSize = 1
  FlushThreshold = 0
  MaxWrites = 3
  MaxFlushes = 1
  MaxBreaks = 1
  MaxErrors = 1
SYMMETRY MCSymmetry
INVARIANTS HeldInv OneCallAtATime Accounting CacheBound StatusTruthful CleanTermination
