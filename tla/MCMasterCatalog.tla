--------------------------- MODULE MCMasterCatalog ---------------------------
EXTENDS MasterCatalog
=============================================================================
