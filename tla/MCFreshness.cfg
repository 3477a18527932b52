SPECIFICATION Spec
CONSTANTS
  Versions = {v1, v2, v3, v4}
  None = None
  MaxDeploys = 3
  Oddities <- TwoOddities
INVARIANTS ReloadSafe
PROPERTIES BecomesCurrent
