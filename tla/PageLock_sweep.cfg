SPECIFICATION Spec
CONSTANTS
  None = None
  Threads <- MCWorkers
  Procs <- MCClientProcs
  ProcOf <- MCClientsOf
  Keys = {"k1"}
  LockIds = {1, 2, 3, 4, 5, 6}
  Inodes = {1, 2, 3}
  MaxRegistry = 1
  MaxNest = 1
  Modes = {"rmw"}
  FlockKeys = {"k1"}
  DegradationAllowed = FALSE
  Stopping = {"daemon"}
  Sweepers = {"daemon"}
  Mortal = {}
INVARIANTS MutualExclusion
