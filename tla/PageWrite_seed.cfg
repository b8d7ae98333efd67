SPECIFICATION FairSpec
CONSTANTS
  None = None
  Writers <- Two
  Does <- Seeders
  MaxStamp = 4
  Attempts = 2
  HumanActs = {"save", "delete"}
  PageAtStart = FALSE
  IOFaults = TRUE
  TmpSwept = TRUE
  Mortal = {"w1"}
PROPERTIES RobotUpdatesKept HumanEditsKept EveryWriteEnds
