SPECIFICATION Spec
CONSTANTS
  r1 = r1
  r2 = r2
  d1 = d1
  NoRun = NoRun
  Runs = {r1, r2}
  Downs = {d1}
  Recorded = {}
  Faults = {}
INVARIANT OneContainer
CHECK_DEADLOCK FALSE
