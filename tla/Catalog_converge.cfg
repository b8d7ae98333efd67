SPECIFICATION FairSpec
CONSTANTS
  None = None
  Daemons = {"daemon"}
  Auditors = {"audit"}
  Readers = {"audit"}
  Pages = {"p"}
  MaxSaves = 2
  MaxRestarts = 1
  MaxCorrupt = 1
INVARIANT TypeOK
PROPERTIES RowsKept CatalogConverges
