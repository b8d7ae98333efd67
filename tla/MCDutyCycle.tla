---------------------------- MODULE MCDutyCycle ----------------------------
EXTENDS DutyCycle

\* A page indexed before the daemon had a ledger, beside either a new page and no journal of
\* the day yet, or the journal of the day and a page that is still to come.
Mixed == {<<"plain", "indexed", "absent">>, <<"absent", "indexed", "plain">>}
=============================================================================
