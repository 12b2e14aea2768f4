SPECIFICATION Spec
CONSTANTS
  MaxBlockSize = 3
  Paths = {p1, p2}
  Handles = {h1, h2}
  Sizes = {1, 2, 4}
  MaxOffset = 3
  MaxWrites = 3
INVARIANTS MergeKeepsContent RequestFits
CHECK_DEADLOCK FALSE
