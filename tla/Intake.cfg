SPECIFICATION Spec
CONSTANTS
  u1 = u1
  u2 = u2
  Dirs = {u1, u2}
  Worlds <- MCWorlds
  Pages = {1, 2}
  Failing = {"sync", "work"}
  MaxRows = 2
  MaxPipes = 4
  MaxFails = 1
  MaxDeaths = 1
  MaxRequeues = 1
  Alone = TRUE
  Undisturbed = TRUE
CHECK_DEADLOCK FALSE
INVARIANTS
  PagesKept
  MovedOnce
  WholeIssues
  RemovedAlone
PROPERTIES
  ScansTaken
