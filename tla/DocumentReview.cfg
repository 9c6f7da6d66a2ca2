SPECIFICATION Spec
CONSTANTS
  spec = spec
  plan = plan
  v1 = v1
  v2 = v2
  s1 = s1
  s2 = s2
  r1 = r1
  c1 = c1
  c2 = c2
  c3 = c3
  None = None
  Docs <- OneDoc
  Gated <- OneDoc
  Requires <- NoPrerequisite
  ClosingDoc = spec
  CloseRequires = {}
  Starts <- FromDraft
  Calls = {c1, c2}
  Viewers = {v1}
  Sources = {}
  RequestIds = {}
  Asks <- ReviewAsks
  Parts = 2
  MaxAttempts = 3
  MaxContexts = 3
  Budget <- ReviewBudget
SYMMETRY Alike
CHECK_DEADLOCK FALSE
INVARIANTS
  ShownIsRetained
  SignedWasShown
PROPERTIES
  ImplementsRegister
