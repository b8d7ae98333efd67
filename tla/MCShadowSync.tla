---------------------------- MODULE MCShadowSync ----------------------------
EXTENDS ShadowSync

\* The daemon's cycle thread and file watcher, a server (MCP or UI) with two workers.
MCProcs == {"daemon", "server"}
MCThreads == {"cycle", "watcher", "tool1", "tool2"}
MCProcOf == [t \in MCThreads |-> IF t \in {"cycle", "watcher"} THEN "daemon" ELSE "server"]
MCMain == [q \in MCProcs |-> IF q = "daemon" THEN "cycle" ELSE "tool1"]
=============================================================================
