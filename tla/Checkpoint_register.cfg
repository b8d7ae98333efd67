SPECIFICATION Spec
CONSTANTS
  None = None
  Torn = Torn
  Absent = Absent
  i1 = i1
  i2 = i2
  i3 = i3
  Procs = {"daemon", "stop", "observer"}
  Savers = {"daemon", "stop"}
  ReadOnly = {"observer"}
  Inodes <- MCInodes
  MaxSaves = 3
  MaxFaults = 1
  MaxCuts = 1
SYMMETRY Interchangeable
INVARIANT TypeOK
PROPERTIES OneMishapKeepsBackup ImplementsRegister
