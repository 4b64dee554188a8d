SYMMETRY RequestSymmetry
CONSTANTS
  Nobody = Nobody
  Users = {ann, bob}
  Curators = {ann, bob}
  Reviewers = {bob}
  Managers = {}
  Requests = {q1, q2}
  Overlap = 2
  MaxPipelines = 2
  MaxBatches = 0
  RequestsDie = FALSE
  JobsFail = TRUE
SPECIFICATION Spec
INVARIANTS
  ReviewedByAnother
  IInv
CHECK_DEADLOCK FALSE
