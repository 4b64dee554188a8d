SPECIFICATION Spec
CONSTANTS
  Pages = {1, 2, 3}
  MaxRetries = 2
  MaxFaults = 2
  Faults = {"error", "crash"}
CHECK_DEADLOCK FALSE
INVARIANTS
  TypeOK
  ContentKept
  ShownComplete
  StepMeansFiles
  OnlyUnrepeatableFail
PROPERTY
  PipelineEnds
