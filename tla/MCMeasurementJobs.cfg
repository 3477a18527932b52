SPECIFICATION Spec
CONSTANTS
  MaxFlows = 3
  MaxJobs = 3
  MaxErrors = 2
  Instances <- Cases
INVARIANTS RunsSafe
PROPERTIES LatestResult  CancelEnds
CHECK_DEADLOCK FALSE
