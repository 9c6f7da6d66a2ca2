SPECIFICATION Spec
CONSTANTS
  spec = spec
  plan = plan
  v1 = v1
  v2 = v2
  s1 = s1
  s2 = s2
  r1 = r1
  c1 = c1
  c2 = c2
  c3 = c3
  None = None
  Docs <- TwoDocs
  Gated <- TwoDocs
  Requires <- PlanAfterSpec
  ClosingDoc = plan
  CloseRequires = {plan}
  Starts <- FromAny
  Calls = {c1, c2}
  Viewers = {v1}
  Sources = {s1}
  RequestIds = {}
  Asks <- CloseAsks
  Parts = 1
  MaxAttempts = 3
  MaxContexts = 1
  Budget <- CloseBudget
SYMMETRY Alike
CHECK_DEADLOCK FALSE
INVARIANTS
  OutcomeAgrees
PROPERTIES
  KeptRowsStand
  ImplementsRegister
