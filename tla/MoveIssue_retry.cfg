SPECIFICATION Spec
CONSTANTS
  Pages = {1, 2, 3}
  MaxRetries = 2
  MaxFaults = 2
  Faults = {"error"}
CHECK_DEADLOCK FALSE
PROPERTY
  RetriesSucceed
