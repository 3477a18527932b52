SPECIFICATION Spec
CONSTANTS
  MaxFaults = 4
  Oddities <- TwoOddities
INVARIANTS LinkSafe
PROPERTIES HealthyKept Reconnects OutageShown
