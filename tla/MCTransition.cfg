SPECIFICATION Spec
CONSTANTS
  Allowed <- NoHold
  MaxTxn = 3
  MaxCrashes = 1
INVARIANTS TypeOK UserMuteKept GateHonest
PROPERTIES StepsSound
CHECK_DEADLOCK FALSE
