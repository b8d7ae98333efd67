---------------------------- MODULE MCPageWrite ----------------------------
EXTENDS PageWrite

Two == {"w1", "w2"}
Three == {"w1", "w2", "w3"}

\* The daemon, which retakes page and baseline after its lint modules or not; a
\* tool of the MCP server, which takes the baseline before the page or after;
\* and a writer that does not watch for the human.
Watchers ==
    [w1 |-> {"semantic", "relint"}, w2 |-> {"property", "append", "alias"}, w3 |-> {"rewrite"}]

\* A page is seeded and appended to while it comes and goes.
Seeders == [w1 |-> {"seed"}, w2 |-> {"append"}]
=============================================================================
