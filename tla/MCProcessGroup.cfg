SPECIFICATION Spec
CONSTANTS
  KillAfter = 2
  TermAfter = 2
  KillWait = 2
  MaxTime = 5
INVARIANT NoneOutlives
\* Time is bounded.
CHECK_DEADLOCK FALSE
