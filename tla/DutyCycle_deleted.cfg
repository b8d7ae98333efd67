SPECIFICATION Spec
CONSTANTS
  NoRec = NoRec
  None = None
  Pages = {1, 2, 3}
  Journals = {3}
  Today = 3
  StartKinds <- Mixed
  EditKinds = {"plain", "absent"}
  Budget = 1
  MaxWrites = 1
  MaxStarts = 2
  MaxFaults = 1
CHECK_DEADLOCK FALSE
PROPERTY CycleNeverAborts
