SPECIFICATION Spec
CONSTANTS
  None = None
  Writers <- Three
  Does <- Watchers
  MaxStamp = 4
  Attempts = 2
  HumanActs = {"save"}
  PageAtStart = TRUE
  IOFaults = TRUE
  TmpSwept = TRUE
  Mortal = {"w2"}
INVARIANTS TypeOK InferenceCurrent BaselineFirst
PROPERTIES RobotUpdatesKept HumanEditsKept
