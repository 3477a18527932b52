SPECIFICATION FooterSpec
CONSTANTS
  MaxReads = 1
  FooterInstances <- SmallInstances
INVARIANTS FooterSafe
PROPERTIES CommittedOwnerWins FooterSettles
