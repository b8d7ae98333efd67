SPECIFICATION Spec
CONSTANTS
  None = None
  Procs = {"daemon", "cli"}
  Roles <- MCRoles
  Mortal = {"cli"}
  Pages = {1, 2}
  Started = {1}
  Words = {"x"}
  Contents <- MCContents
  MaxStamp = 4
  MaxFaults = 1
INVARIANTS TypeOK HitIsCurrent OwnersAgree CountsMatchSignature
