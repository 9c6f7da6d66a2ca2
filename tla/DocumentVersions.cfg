SPECIFICATION Spec
CONSTANTS
  spec = spec
  plan = plan
  v1 = v1
  v2 = v2
  s1 = s1
  s2 = s2
  r1 = r1
  c1 = c1
  c2 = c2
  c3 = c3
  None = None
  Docs <- OneDoc
  Gated <- OneDoc
  Requires <- NoPrerequisite
  ClosingDoc = spec
  CloseRequires = {}
  Starts <- FromAny
  Calls = {c1, c2}
  Viewers = {v1}
  Sources = {s1, s2}
  RequestIds = {r1}
  Asks <- VersionAsks
  Parts = 1
  MaxAttempts = 3
  MaxContexts = 3
  Budget <- VersionBudget
SYMMETRY Alike
CHECK_DEADLOCK FALSE
INVARIANTS
  TypeOK
  StatusIsSeal
  VersionsHaveNewCause
  RequestLandsOnce
  GenerationNamesOneSnapshot
PROPERTIES
  EditsApplyToCurrent
  ApprovedChangeOpensVersion
