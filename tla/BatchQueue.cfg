CONSTANTS
  Issues = {i1, i2, i3}
  MOCs = {"oru", "hoodriver"}
  Kinds <- MCKinds
  Sizes = {2, 3}
  MinPages = 3
  MaxPages = 5
  FirstDay = 50
  DaysBetween = {0, 15}
  MaxRuns = 2
SPECIFICATION FairSpec
INVARIANTS
  IInv
  EachIssueOnce
  WithinLimits
  NoStaleLeftBehind
PROPERTIES
  Terminates
CHECK_DEADLOCK FALSE
