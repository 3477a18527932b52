SPECIFICATION Spec
CONSTANTS
  Allowed <- Holding
  MaxTxn = 1
  MaxCrashes = 0
PROPERTIES NoHeldOutputAudible
CHECK_DEADLOCK FALSE
