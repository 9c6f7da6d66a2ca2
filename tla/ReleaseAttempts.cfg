CONSTANTS
  c1 = c1
  c2 = c2
  f1 = f1
  k1 = k1
  k2 = k2
  None = None
  Candidates = {c1, c2}
  Findings = {f1}
  Targets <- SameTargets
  Keys = {k1, k2}
  MaxAttempts = 2
  MaxVersion = 3

SPECIFICATION TableSpec
SYMMETRY Alike
INVARIANTS
  VersionsClaimedOnce
  OneReleasePerBase
  FindingsFollowReleases
  RollbackRestsOnVerdict
PROPERTIES
  ImplementsLifecycle
CHECK_DEADLOCK FALSE
