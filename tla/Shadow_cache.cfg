SPECIFICATION Spec
CONSTANTS
  None = None
  Procs <- MCProcs
  Main <- MCMain
  Threads <- MCThreads
  ProcOf <- MCProcOf
  Writers = {"tool1"}
  Watchers = {"watcher"}
  Readers = {"tool2"}
  Reloaders = {"tool2"}
  Paths = {"p"}
  AtStart = {"p"}
  Mishaps = {"timeout", "error", "parse", "crash", "unwatched", "reload"}
  MaxSaves = 2
INVARIANTS TypeOK ServedCurrent FailureHides CalmIsComplete
