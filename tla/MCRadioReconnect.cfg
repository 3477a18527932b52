SPECIFICATION Spec
CONSTANTS
  Stations = {s1, s2}
  Other = Other
  None = None
  MaxAttempts = 1
  Instances <- Cases
INVARIANTS OneReconnect ReconnectSafe RecoversCurrent
PROPERTIES EndIsAnswered
CHECK_DEADLOCK FALSE
