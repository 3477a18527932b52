SPECIFICATION Spec
CONSTANTS
  Profiles <- AllProfiles
  Capacity = 3
  Block = 2
  Pipe = 2
  MaxFrames = 5
  MaxGen = 2
INVARIANTS FramesSafe Complete
PROPERTIES Ends
