SPECIFICATION LiveSpec
CONSTANTS
  None = None
  s0 = s0
  s1 = s1
  Seeds = {s0, s1}
  FirstSeed = s0
  ResetSeeds = {s1}
  Places = {0, 1}
  Region = {1}
  SpawnAt <- MCSpawnInside
  HoldS = 1
  TimeoutS = 2
  MaxSpeed = 0
  MaxPoseGap = 1
  QueueDepth = 1
  MaxBoot = 1
  MaxLag = 1
  MaxTime = 4
  MaxResets = 1
INVARIANT OneVerdict
INVARIANT Earned
INVARIANT TimeoutKept
PROPERTY Judged
CHECK_DEADLOCK FALSE
