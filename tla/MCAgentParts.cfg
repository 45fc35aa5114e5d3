SPECIFICATION PartsSpec
CONSTANTS
  Margin = 1
  SeedMax = 3
  RenderHz = 6
  MaxPixels = 2
  MaxPulls = 2
  Catalogs <- MCImages
  Specs <- MCSpecs
  NoRun = NoRun
  r1 = r1
  r2 = r2
  d1 = d1
  None = None
  s0 = s0
  s1 = s1
  s2 = s2
  s3 = s3
  c1 = c1
  k1 = k1
  k2 = k2
  m1 = m1
  m2 = m2
  Seeds = {s0, s1, s2, s3}
  BootSeed = s0
  SpecSeed = s1
  Callers = {c1}
  BringUp = bringUp
  FreshSeeds = TRUE
  MaxResets = 2
  FaultyRuns = {r1}
  FaultyDowns = {d1}
  FaultyRecorded = {r1}
  Failures = {"docker", "stop", "disk"}
  StopsRuns = {r1, r2}
  StopsFailures = {"stop", "disk"}
  CatalogCallers = {k1, k2}
  MaxCatalogs = 2
  MeshRuns <- MCMeshRuns
  Meshes = {m1, m2}
  MaxImage = 3
  KillAfter = 2
  TermAfter = 2
  KillWait = 2
  MaxTime = 5
INVARIANT MirrorAgrees
INVARIANT OverridesKept
INVARIANT StartsWhole
INVARIANT WorldTrue
INVARIANT RunWhole
INVARIANT KeptOfImage
INVARIANT StillEnded
 
SYMMETRY PartSymmetry
\* Every run may have ended.
CHECK_DEADLOCK FALSE
