CONSTANTS
  Nobody = Nobody
  Users = {ann, bob, meg}
  Curators = {ann, bob}
  Reviewers = {bob}
  Managers = {meg}
  Requests = {q1}
  Overlap = 1
  MaxPipelines = 3
  MaxBatches = 2
  RequestsDie = TRUE
  JobsFail = FALSE
SPECIFICATION FairSpec
INVARIANTS
  OnlyReviewedBatched
PROPERTIES
  InvisibleStepsPass
CHECK_DEADLOCK FALSE
