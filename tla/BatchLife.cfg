CONSTANTS
  Issues = {i1, i2}
  Sessions = {s1}
  MaxBatches = 2
  MaxPipes = 3
  MaxEdits = 2
  MaxDeaths = 1
  Patient = TRUE
  Undisturbed = TRUE
SPECIFICATION Spec
INVARIANTS
  ShownAsReviewed
  NothingLeftOfFailed
  NoIssueLost
  RemovedOnlyWhenDone
PROPERTIES
  CleanedUp
CHECK_DEADLOCK FALSE
