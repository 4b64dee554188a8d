SPECIFICATION FairSpec
CONSTANTS
  r1 = r1
  r2 = r2
  move = move
  split = split
  Chains = {"issue1", "issue2"}
  JobTypes = {move, split}
  StepTypes <- MCTwoSteps
  Runners = {r1, r2}
  Watches <- MCDisjoint
  Operators = {"op"}
  MaxRetries = 1
  MaxJobs = 13
  MaxAtRequeue = 7
  Faults = {}
CHECK_DEADLOCK FALSE
INVARIANT
  NeverStranded
PROPERTY
  PipelinesSettle
