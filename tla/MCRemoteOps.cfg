SPECIFICATION Spec
CONSTANTS
  Paths <- MCPaths
  Files <- MCFiles
  Inodes <- MCInodes
  Fds <- MCFds
  Dirps <- MCDirps
  Clients = {c1, c2}
  Opener = c1
  Listeners = 1
  Pollers = 1
  Workloads <- MCWorkloads
  MaxFails = 1
  Rooms = {1, 2}
  BlocksBits = 1
INVARIANTS  RightFile DescriptorsOwned PagesComplete OnlyUtimensMissing
PROPERTY Answered
CHECK_DEADLOCK FALSE
