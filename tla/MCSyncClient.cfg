SPECIFICATION FairSpec
CONSTANTS
  Threads = {t1, t2}
  Handles = {h1, h2}
  Paths = {p1}
  Modes = {"rw"}
  MaxOps = 4
  MaxStreams = 6
  MaxFaults = 1
  MaxErrors = 1
INVARIANTS OwnReply DanglesOnlyIfShared AppliedOnce 
PROPERTY OperationsReturn
CHECK_DEADLOCK FALSE
