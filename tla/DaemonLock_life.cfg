SPECIFICATION FairSpec
CONSTANTS
  None = None
  d1 = d1
  d2 = d2
  d3 = d3
  s1 = s1
  Daemons <- MCThree
  Stoppers = {s1}
  Inodes = {1, 2, 3}
  Detached = {d3}
  MayFail = {d1}
  MayDie = {d2}
INVARIANTS TypeOK SingletonUnlessOvertaken
PROPERTY StopStops
CHECK_DEADLOCK FALSE
