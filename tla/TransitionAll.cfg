SPECIFICATION Spec
CONSTANTS
  Allowed <- Everything
  MaxTxn = 1
  MaxCrashes = 1
INVARIANTS OpenIsConfirmed HeldIsMuted
PROPERTIES Released
CHECK_DEADLOCK FALSE
