SPECIFICATION Spec
CONSTANTS
  r1 = r1
  r2 = r2
  d1 = d1
  NoRun = NoRun
  Runs = {r1, r2}
  Downs = {d1}
  Recorded = {r1, r2}
  Faults = {"docker"}
INVARIANT TypeOK
INVARIANT OneFinaliser
INVARIANT Driven
INVARIANT NoLeak
INVARIANT RecordLeft
PROPERTY ClosedForGood
PROPERTY ImplementsLifecycle
SYMMETRY RunSymmetry
\* Every run may have ended.
CHECK_DEADLOCK FALSE
