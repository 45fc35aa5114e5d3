SPECIFICATION SettleSpec
CONSTANTS
  r1 = r1
  r2 = r2
  d1 = d1
  NoRun = NoRun
  Runs = {r1, r2}
  Downs = {d1}
  Recorded = {}
  Faults = {}
PROPERTY SettleHolds
SYMMETRY RunSymmetry
\* Every run may have ended.
CHECK_DEADLOCK FALSE
