SPECIFICATION Spec
CONSTANTS
  r1 = r1
  r2 = r2
  move = move
  split = split
  Chains = {"issue1", "issue2"}
  JobTypes = {move, split}
  StepTypes <- MCThreeSteps
  Runners = {r1, r2}
  Watches <- MCDisjoint
  Operators = {"op"}
  MaxRetries = 1
  MaxJobs = 5
  MaxAtRequeue = 5
  Faults = {"crash", "dberror", "reset", "force", "stop"}
CHECK_DEADLOCK FALSE
INVARIANTS
  ChainOrder
  SingleLiveJob
  OneRunnerPerPipeline
  IInv
PROPERTIES
  ImplementsPipeline
  ReleasedInTurn
