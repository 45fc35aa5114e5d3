SPECIFICATION LiveSpec
CONSTANTS
  None = None
  u1 = u1
  u2 = u2
  d1 = d1
  w1 = w1
  Ups <- MCUps
  Downs <- MCDowns
  Works <- MCWorks
  Debugs <- MCDebugs
  Workers <- MCWorkers
  Ceiling <- MCCeiling
  MaxRuns = 2
  MaxStarts = 2
INVARIANT SlotsHeld
INVARIANT HeldKept
 
PROPERTY DownServed
CHECK_DEADLOCK FALSE
