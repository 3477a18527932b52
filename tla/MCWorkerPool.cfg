SPECIFICATION FairSpec
CONSTANTS
  N = 2
  JobCounts <- MixedJobs
  W = 8
  MaxRuns = 3
INVARIANTS Drained ExactlyOnce NoUseAfterFree
PROPERTIES CallsReturn
