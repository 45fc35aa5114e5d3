SPECIFICATION LiveSpec
CONSTANTS
  None = None
  Idle = 2
  BlockPercent = 50
  Lifetime = 3
  Horizon = 5
  MaxLaunch = 1
  MaxInstances = 8
INVARIANT IdleEnds
 
PROPERTY BudgetGate
PROPERTY DeadlineHolds
CHECK_DEADLOCK FALSE
