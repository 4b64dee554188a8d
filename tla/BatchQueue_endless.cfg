CONSTANTS
  Issues = {i1, i2}
  MOCs = {"oru", "hoodriver"}
  Kinds <- MCKinds
  Sizes = {2, 6}
  MinPages = 3
  MaxPages = 5
  FirstDay = 50
  DaysBetween = {0, 15}
  MaxRuns = 1
SPECIFICATION FairSpec
PROPERTIES
  Terminates
CHECK_DEADLOCK FALSE
