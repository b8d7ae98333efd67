SPECIFICATION Spec
CONSTANTS
  None = None
  Threads <- MCThreads
  Procs <- MCProcs
  ProcOf <- MCProcOf
  Keys = {"k1", "k2"}
  FlockKeys = {"k1"}
  LockIds = {1, 2, 3, 4, 5, 6}
  Inodes = {1, 2, 3}
  MaxRegistry = 1
  MaxNest = 1
  Modes = {"rmw"}
  DegradationAllowed = TRUE
  Stopping = {"daemon"}
  Sweepers = {}
  Mortal = {"server"}
INVARIANTS TypeOK MutualExclusion RegistryBounded
PROPERTY ImplementsMutex
