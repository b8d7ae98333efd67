SPECIFICATION FairSpec
CONSTANTS
  None = None
  Threads <- MCThreads
  Procs <- MCClientProcs
  ProcOf <- MCServedOf
  Keys = {"k1"}
  FlockKeys = {"k1"}
  LockIds = {1, 2, 3, 4, 5, 6}
  Inodes = {1, 2, 3, 4}
  MaxRegistry = 1
  MaxNest = 2
  Modes = {"rmw", "probe"}
  DegradationAllowed = FALSE
  Stopping = {"daemon"}
  Sweepers = {"daemon"}
  Mortal = {"cli"}
PROPERTY EveryCallReturns
INVARIANT NothingLeaks
