SPECIFICATION Spec
CONSTANTS
  Instances <- Cases
INVARIANTS TypeOK
PROPERTIES SupersededPlayDropped ReadsNeverRegress Converges ImplementsOrder
