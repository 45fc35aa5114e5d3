SPECIFICATION LiveSpec
CONSTANTS
  None = None
  NSeeds = 2
  MaxRuns = 4
INVARIANT OwnTrial
INVARIANT NoneLeft
PROPERTY TrialEnds
CHECK_DEADLOCK FALSE
