SPECIFICATION Spec
CONSTANTS
    t1 = t1
    t2 = t2
    Threads = {t1, t2}
    Paths = {"a/x", "a/z", "b/y"}
    DirOf <- MCDirOf
    Requests <- MCRequests
    MaxCalls = 4
    MaxErrors = 1
    MaxCrashes = 1
SYMMETRY Symmetry
CHECK_DEADLOCK FALSE
INVARIANTS
    Durable
    SyncsWhatItMade
