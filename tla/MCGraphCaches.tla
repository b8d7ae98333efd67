--------------------------- MODULE MCGraphCaches ---------------------------
EXTENDS GraphCaches

\* Two pages that may ask for the same alias, one of them linked from the other.
MCContents == {[names |-> {"x"}, links |-> {2}], [names |-> {}, links |-> {}]}

\* The daemon with its aliases, the daemon with its backlink counts, and an audit that
\* counts backlinks beside a daemon that writes.
MCRoles == {[daemon |-> {"index", "write"}, cli |-> {}],
            [daemon |-> {"load", "write"}, cli |-> {}],
            [daemon |-> {"write"}, cli |-> {"load"}]}
MCCollector == {[daemon |-> {"index"}, cli |-> {}]}
=============================================================================
