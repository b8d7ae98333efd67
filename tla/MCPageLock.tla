----------------------------- MODULE MCPageLock -----------------------------
EXTENDS PageLock

\* Two worker threads of the daemon and one thread of the MCP server.
MCThreads == {"a1", "a2", "b1"}
MCProcs == {"daemon", "server"}
MCWorkers == {"a1", "a2"}
MCProcOf == [t \in MCThreads |-> IF t = "b1" THEN "server" ELSE "daemon"]
MCWorkersOf == [t \in MCWorkers |-> "daemon"]

\* Two threads of the MCP server and a CLI client beside such a daemon.
MCServedOf == [t \in MCThreads |-> IF t = "b1" THEN "cli" ELSE "server"]

\* Two clients of the graph beside a daemon that only shuts down.
MCClientsOf == [t \in MCWorkers |-> IF t = "a1" THEN "server" ELSE "cli"]
MCClientProcs == {"daemon", "server", "cli"}
=============================================================================
